---- MODULE Spec2Model ----
(***************************************************************************)
(* Model of the NANDA adapter core: the A2A wire envelope                  *)
(* (nanda_adapter/core/protocol.py), the message router                    *)
(* (nanda_adapter/core/router.py), the payment middleware                  *)
(* (nanda_adapter/core/payment_middleware.py) and the SimpleNANDA server   *)
(* handler (nanda_adapter/simple.py).                                      *)
(*                                                                         *)
(* Text is a sequence of tokens.  A token is one character or one atomic   *)
(* word; the protocol markers are atomic tokens, "\n" is the line break.   *)
(***************************************************************************)
EXTENDS Integers, Sequences, FiniteSets, TLC

VARIABLES
    cPhase, cEnv, cRaw, cParsed,
    router, registry, rIn, rOut, rTrace, rEnvs,
    sAgents, sDir, sStack, sSends, sResp, sLog,
    xCall,
    fFile, fInst, fAbs, fLast,
    tFrames

codecVars  == <<cPhase, cEnv, cRaw, cParsed>>
routerVars == <<router, registry, rIn, rOut, rTrace, rEnvs>>
sysVars    == <<sAgents, sDir, sStack, sSends, sResp, sLog>>
x402Vars   == <<xCall>>
fileVars   == <<fFile, fInst, fAbs, fLast>>
concVars   == <<tFrames>>
vars       == <<cPhase, cEnv, cRaw, cParsed,
                router, registry, rIn, rOut, rTrace, rEnvs,
                sAgents, sDir, sStack, sSends, sResp, sLog, xCall,
                fFile, fInst, fAbs, fLast, tFrames>>

----------------------------------------------------------------------------
(* Bounds of the model *)

MaxBodyLines == 2
MaxDepthVal  == 10
MaxRouteDepth == 2
MaxCharge == 2

----------------------------------------------------------------------------
(* Tokens and string helpers (Python str methods used by the code) *)

NL == "\n"
EXT_MARK   == "__EXTERNAL_MESSAGE__"
FROM_MARK  == "__FROM_AGENT__"
TO_MARK    == "__TO_AGENT__"
TYPE_MARK  == "__MESSAGE_TYPE__"
DEPTH_MARK == "__DEPTH__"
MAXD_MARK  == "__MAX_DEPTH__"
RCPT_MARK  == "__RECEIPT_ID__"
START_MARK == "__MESSAGE_START__"
END_MARK   == "__MESSAGE_END__"

\* Python None, where the code holds an optional string
Nil == <<"<None>">>

Digits == <<"0", "1", "2", "3", "4", "5", "6", "7", "8", "9">>
DigitSet == {Digits[i] : i \in 1..10}

IsSpace(t) == t \in {" ", NL, "\t"}

\* F applied to the value of e, with e evaluated once
Once(e, F(_)) == CHOOSE r \in {F(v) : v \in {e}} : TRUE

\* str.strip(): the text between the first and the last non-space token
Strip(text) ==
    Once(text, LAMBDA s : Once({i \in 1..Len(s) : ~IsSpace(s[i])}, LAMBDA solid :
        IF solid = {} THEN <<>>
        ELSE SubSeq(s, CHOOSE i \in solid : \A j \in solid : i <= j,
                       CHOOSE i \in solid : \A j \in solid : j <= i)))

\* str.startswith(t) for a one-token prefix
StartsWith(s, t) == s # <<>> /\ s[1] = t

\* index of the first occurrence of token t in s, 0 if none
IndexOf(text, t) ==
    Once(text, LAMBDA s :
        IF \E i \in 1..Len(s) : s[i] = t
        THEN CHOOSE i \in 1..Len(s) : s[i] = t /\ \A j \in 1..(i - 1) : s[j] # t
        ELSE 0)

Contains(text, t) == Once(text, LAMBDA s : \E i \in 1..Len(s) : s[i] = t)

\* str.split(sep): every separator splits; part k lies between the
\* (k-1)-th and the k-th separator
SplitAt(s, cuts) ==
    LET Cut(k) == CHOOSE c \in cuts : Cardinality({d \in cuts : d < c}) = k
    IN [k \in 1..(Cardinality(cuts) - 1) |-> SubSeq(s, Cut(k - 1) + 1, Cut(k) - 1)]
SplitAll(text, sep) ==
    Once(text, LAMBDA s :
        Once({0, Len(s) + 1} \cup {i \in 1..Len(s) : s[i] = sep}, LAMBDA cuts : SplitAt(s, cuts)))

\* str.split(sep, 1): split at the first separator only
SplitOnce(text, sep) ==
    Once(text, LAMBDA s :
        Once(IndexOf(s, sep), LAMBDA i :
            IF i = 0 THEN <<s>> ELSE <<SubSeq(s, 1, i - 1), SubSeq(s, i + 1, Len(s))>>))

\* sep.join(parts)
RECURSIVE JoinFrom(_, _, _)
JoinFrom(parts, sep, k) ==
    IF k > Len(parts) THEN <<>>
    ELSE IF k = Len(parts) THEN parts[k]
    ELSE parts[k] \o <<sep>> \o JoinFrom(parts, sep, k + 1)

\* str(n) for an integer: decimal rendering
RECURSIVE DecNat(_)
DecNat(n) == IF n < 10 THEN <<Digits[n + 1]>> ELSE DecNat(n \div 10) \o <<Digits[(n % 10) + 1]>>
DecStr(n) == IF n < 0 THEN <<"-">> \o DecNat(0 - n) ELSE DecNat(n)

\* int(s): surrounding whitespace and one sign are accepted, then digits only
RECURSIVE DigitsVal(_)
DigitsVal(s) == IF s = <<>> THEN 0 ELSE 10 * DigitsVal(SubSeq(s, 1, Len(s) - 1)) + (CHOOSE i \in 1..10 : Digits[i] = s[Len(s)]) - 1
ParseInt(s) ==
    LET t == Strip(s)
        neg == StartsWith(t, "-")
        body == IF StartsWith(t, "-") \/ StartsWith(t, "+") THEN Tail(t) ELSE t
    IN IF body # <<>> /\ \A i \in 1..Len(body) : body[i] \in DigitSet
       THEN [ok |-> TRUE, val |-> IF neg THEN 0 - DigitsVal(body) ELSE DigitsVal(body)]
       ELSE [ok |-> FALSE, val |-> 0]

----------------------------------------------------------------------------
(* protocol.py: A2AMessage, format_a2a_message, parse_a2a_message *)

QUERY == <<"query">>
RESPONSE == <<"response">>

\* an envelope addressed back to its sender
A2AMessageSwapped(f, t, m, conv, d, md, ty, r) ==
    [from_agent |-> t, to_agent |-> f, message |-> m, conversation_id |-> conv,
     depth |-> d, max_depth |-> md, message_type |-> ty, receipt_id |-> r]

A2AMessage(f, t, m, conv, d, md, ty, r) ==
    [from_agent |-> f, to_agent |-> t, message |-> m, conversation_id |-> conv,
     depth |-> d, max_depth |-> md, message_type |-> ty, receipt_id |-> r]

\* Python truthiness of an optional string
Truthy(s) == s # Nil /\ s # <<>>

\* a validation that accepts an empty message
PostInitOkAnyMessage(e) ==
    /\ Truthy(e.from_agent)
    /\ Truthy(e.to_agent)
    /\ e.depth >= 0
    /\ e.max_depth >= 0
    /\ e.message_type \in {QUERY, RESPONSE}

\* a validation that forgets the two depth checks
PostInitOkNoDepth(e) ==
    /\ Truthy(e.from_agent)
    /\ Truthy(e.to_agent)
    /\ Truthy(e.message)
    /\ e.message_type \in {QUERY, RESPONSE}

\* A2AMessage.__post_init__: TRUE iff construction does not raise ValueError
PostInitOk(e) ==
    /\ Truthy(e.from_agent)
    /\ Truthy(e.to_agent)
    /\ Truthy(e.message)
    /\ e.depth >= 0
    /\ e.max_depth >= 0
    /\ e.message_type \in {QUERY, RESPONSE}

format_a2a_message(msg) ==
    LET receipt_field == IF Truthy(msg.receipt_id)
                         THEN <<RCPT_MARK>> \o msg.receipt_id \o <<NL>>
                         ELSE <<>>
    IN <<EXT_MARK, NL, FROM_MARK>> \o msg.from_agent \o
       <<NL, TO_MARK>> \o msg.to_agent \o
       <<NL, TYPE_MARK>> \o msg.message_type \o
       <<NL, DEPTH_MARK>> \o DecStr(msg.depth) \o
       <<NL, MAXD_MARK>> \o DecStr(msg.max_depth) \o
       <<NL>> \o receipt_field \o <<START_MARK, NL>> \o msg.message \o <<NL, END_MARK>>

is_a2a_message(raw) == raw # <<>> /\ StartsWith(Strip(raw), EXT_MARK)

\* the locals with the default ceiling 0 in place of 1
ParseStartNoCeiling ==
    [from_agent |-> Nil, to_agent |-> Nil, message_type |-> QUERY, depth |-> 0,
     max_depth |-> 0, receipt_id |-> Nil, message_lines |-> <<>>, in_message |-> FALSE]

\* the locals before the loop (lines 150-157)
ParseStart ==
    [from_agent |-> Nil, to_agent |-> Nil, message_type |-> QUERY, depth |-> 0,
     max_depth |-> 1, receipt_id |-> Nil, message_lines |-> <<>>, in_message |-> FALSE]

\* one iteration of the loop over lines[1:]; the elif chain in source order
ParseLine(st, line) ==
    IF StartsWith(line, FROM_MARK) THEN [st EXCEPT !.from_agent = Tail(line)]
    ELSE IF StartsWith(line, TO_MARK) THEN [st EXCEPT !.to_agent = Tail(line)]
    ELSE IF StartsWith(line, TYPE_MARK) THEN [st EXCEPT !.message_type = Tail(line)]
    ELSE IF StartsWith(line, DEPTH_MARK)
         THEN [st EXCEPT !.depth = IF ParseInt(Tail(line)).ok THEN ParseInt(Tail(line)).val ELSE 0]
    ELSE IF StartsWith(line, MAXD_MARK)
         THEN [st EXCEPT !.max_depth = IF ParseInt(Tail(line)).ok THEN ParseInt(Tail(line)).val ELSE 1]
    ELSE IF StartsWith(line, RCPT_MARK) THEN [st EXCEPT !.receipt_id = Tail(line)]
    ELSE IF line = <<START_MARK>> THEN [st EXCEPT !.in_message = TRUE]
    ELSE IF st.in_message THEN [st EXCEPT !.message_lines = Append(@, line)]
    ELSE st

\* the for loop, with its break on the end marker
RECURSIVE ParseLoop(_, _, _)
ParseLoop(st, lines, i) ==
    IF i > Len(lines) THEN st
    ELSE IF lines[i] = <<END_MARK>> THEN st
    ELSE Once(ParseLine(st, lines[i]), LAMBDA st2 : ParseLoop(st2, lines, i + 1))

NoMessage == [ok |-> FALSE, msg |-> A2AMessage(Nil, Nil, <<>>, <<>>, 0, 1, QUERY, Nil)]

\* the part of parse_a2a_message after the loop (lines 185-206)
ParseResult(st) ==
    LET message_content == JoinFrom(st.message_lines, NL, 1)
        built == A2AMessage(st.from_agent, st.to_agent, message_content, <<>>,
                            st.depth, st.max_depth, st.message_type, st.receipt_id)
    IN IF ~Truthy(st.from_agent) \/ ~Truthy(st.to_agent) THEN NoMessage
       ELSE IF message_content = <<>> THEN NoMessage
       ELSE IF ~PostInitOk(built) THEN NoMessage
       ELSE [ok |-> TRUE, msg |-> built]

parse_a2a_message(raw) ==
    IF ~is_a2a_message(raw) THEN NoMessage
    ELSE Once(SplitAll(raw, NL),
              LAMBDA lines : Once(ParseLoop(ParseStart, lines, 2), LAMBDA st : ParseResult(st)))

----------------------------------------------------------------------------
(* registry.py: LocalRegistry as the router sees it *)

AGENT_A == <<"agent_a">>
AGENT_B == <<"agent_b">>
AGENT_C == <<"agent_c">>

UrlOf(id) == <<"http://">> \o id

NoEntry == [present |-> FALSE, agent_url |-> <<>>, service_charge |-> 0]
Entry(url, charge) == [present |-> TRUE, agent_url |-> url, service_charge |-> charge]

\* LocalRegistry.register / unregister on the in-memory map
register(reg, id, url, charge) == [reg EXCEPT ![id] = Entry(url, charge)]
unregister(reg, id) == [reg EXCEPT ![id] = NoEntry]

InDir(reg, id) == id \in DOMAIN reg /\ reg[id].present

\* LocalRegistry.lookup: the URL, or None
lookup(reg, id) == IF InDir(reg, id) THEN reg[id].agent_url ELSE Nil

\* LocalRegistry.get_agent_info: the record, or None (present = FALSE)
get_agent_info(reg, id) == IF InDir(reg, id) THEN reg[id] ELSE NoEntry

----------------------------------------------------------------------------
(* payment_middleware.py *)

NOT_REQUIRED == "not_required"
REQUIRED == "required"
PAID == "paid"
INVALID_RECEIPT == "invalid_receipt"
INSUFFICIENT_BALANCE == "insufficient_balance"
PAYMENT_FAILED == "payment_failed"

PaymentResult(st, amt, rid, msg) ==
    [status |-> st, amount |-> amt, receipt_id |-> rid, message |-> msg]

\* the charge read under a key the record does not have: always the default 0
check_payment_requirement_wrong_key(reg, target_agent_id) ==
    IF ~get_agent_info(reg, target_agent_id).present
    THEN PaymentResult(NOT_REQUIRED, 0, Nil,
                       <<"Agent", " ">> \o target_agent_id \o <<" ", "not found">>)
    ELSE PaymentResult(NOT_REQUIRED, 0, Nil,
                       <<"Agent", " ">> \o target_agent_id \o <<" ", "is free">>)

\* the boundary moved: a charge of 0 counts as a charge
check_payment_requirement_zero_charged(reg, target_agent_id) ==
    LET agent_info == get_agent_info(reg, target_agent_id)
    IN IF ~agent_info.present
       THEN PaymentResult(NOT_REQUIRED, 0, Nil,
                          <<"Agent", " ">> \o target_agent_id \o <<" ", "not found">>)
       ELSE IF agent_info.service_charge < 0
       THEN PaymentResult(NOT_REQUIRED, 0, Nil,
                          <<"Agent", " ">> \o target_agent_id \o <<" ", "is free">>)
       ELSE PaymentResult(REQUIRED, agent_info.service_charge, Nil,
                          <<"Agent", " ">> \o target_agent_id \o <<" ", "requires", " ">>
                          \o DecStr(agent_info.service_charge) \o <<" ", "NP", " ", "per request">>)

check_payment_requirement(reg, target_agent_id) ==
    LET agent_info == get_agent_info(reg, target_agent_id)
    IN IF ~agent_info.present
       THEN PaymentResult(NOT_REQUIRED, 0, Nil,
                          <<"Agent", " ">> \o target_agent_id \o <<" ", "not found">>)
       ELSE IF agent_info.service_charge <= 0
       THEN PaymentResult(NOT_REQUIRED, 0, Nil,
                          <<"Agent", " ">> \o target_agent_id \o <<" ", "is free">>)
       ELSE PaymentResult(REQUIRED, agent_info.service_charge, Nil,
                          <<"Agent", " ">> \o target_agent_id \o <<" ", "requires", " ">>
                          \o DecStr(agent_info.service_charge) \o <<" ", "NP", " ", "per request">>)

\* Outcomes of the external settlement service, as process_payment reads them:
\* the reply text names a receipt id, names "receipt" and "id" without a
\* parsable id, says "insufficient", says something else, or the call raises.
SettleOutcomes == {"receipt", "receipt_noid", "insufficient", "other", "raise"}
RECEIPT_1 == <<"r1">>

process_payment(source_agent_id, target_agent_id, amount, outcome) ==
    IF outcome = "receipt"
    THEN PaymentResult(PAID, amount, RECEIPT_1,
                       <<"Payment of", " ">> \o DecStr(amount) \o <<" ", "NP", " ", "processed successfully">>)
    ELSE IF outcome = "receipt_noid"
    THEN PaymentResult(PAID, amount, Nil,
                       <<"Payment of", " ">> \o DecStr(amount) \o <<" ", "NP", " ", "processed successfully">>)
    ELSE IF outcome = "insufficient"
    THEN PaymentResult(INSUFFICIENT_BALANCE, 0, Nil,
                       <<"Insufficient balance for", " ">> \o DecStr(amount) \o <<" ", "NP", " ", "payment">>)
    ELSE IF outcome = "other"
    THEN PaymentResult(PAYMENT_FAILED, 0, Nil, <<"Payment failed:", " ", "declined">>)
    ELSE PaymentResult(PAYMENT_FAILED, 0, Nil, <<"Payment processing error:", " ", "boom">>)

\* outcome of the receipt query: the reply says not found / invalid
\* ("notfound"), describes a receipt with an amount ("found"), or the call
\* raises ("raise")
\* a receipt service taken to confirm every receipt
validate_receipt_trusting(receipt_id, outcome, amount) ==
    PaymentResult(PAID, amount, receipt_id,
                  <<"Receipt", " ">> \o receipt_id \o <<" ", "validated for", " ">>
                  \o DecStr(amount) \o <<" ", "NP">>)

validate_receipt(receipt_id, outcome, amount) ==
    IF outcome = "notfound"
    THEN PaymentResult(INVALID_RECEIPT, 0, Nil,
                       <<"Receipt", " ">> \o receipt_id \o <<" ", "not found or invalid">>)
    ELSE IF outcome = "raise"
    THEN PaymentResult(INVALID_RECEIPT, 0, Nil, <<"Receipt validation error:", " ", "boom">>)
    ELSE PaymentResult(PAID, amount, receipt_id,
                       <<"Receipt", " ">> \o receipt_id \o <<" ", "validated for", " ">>
                       \o DecStr(amount) \o <<" ", "NP">>)

PAYMENT_REQUIRED_TAG == "402-PAYMENT-REQUIRED"

format_payment_required_response(payment_result, target_agent_id) ==
    <<PAYMENT_REQUIRED_TAG, ":", " ", "Agent", " ", "'">> \o target_agent_id \o
    <<"'", " ", "requires", " ">> \o DecStr(payment_result.amount) \o
    <<" ", "NP", " ", "per request.", " ", "Please include payment receipt in your message.">>

\* the maximal run of word tokens starting at position i; word tokens are
\* the tokens made only of [a-zA-Z0-9-], the character class the receipt
\* patterns capture
RECURSIVE WordRun(_, _)
WordRun(s, i) ==
    IF i <= Len(s) /\ s[i] \in DigitSet \cup {"hello", "hi", "r1", "r2", "None", "id", "receipt", "pong",
                                              "get", "help", "query", "foo", "please", "NP", "Agent"}
    THEN <<s[i]>> \o WordRun(s, i + 1) ELSE <<>>

\* first position >= i that holds no separator
RECURSIVE SkipSeps(_, _)
SkipSeps(s, i) == IF i <= Len(s) /\ (s[i] = ":" \/ IsSpace(s[i])) THEN SkipSeps(s, i + 1) ELSE i

IsReceiptWord(t) == t \in {"receipt", "Receipt", "RECEIPT"}

\* r'receipt[_\s]?id[:\s]+([a-zA-Z0-9\-]+)' matched at position i: the capture, or <<>>
Pattern1At(s, i) ==
    LET j == IF i + 1 <= Len(s) /\ (s[i + 1] = "_" \/ IsSpace(s[i + 1])) THEN i + 2 ELSE i + 1
        k == SkipSeps(s, j + 1)
    IN IF /\ IsReceiptWord(s[i])
          /\ j <= Len(s) /\ s[j] \in {"id", "ID", "Id"}
          /\ k > j + 1
       THEN WordRun(s, k) ELSE <<>>

\* r'receipt[:\s]+([a-zA-Z0-9\-]+)'
Pattern2At(s, i) ==
    LET k == SkipSeps(s, i + 1)
    IN IF IsReceiptWord(s[i]) /\ k > i + 1 THEN WordRun(s, k) ELSE <<>>

\* r'#receipt[:\s]*([a-zA-Z0-9\-]+)'
Pattern4At(s, i) ==
    IF s[i] = "#" /\ i + 1 <= Len(s) /\ IsReceiptWord(s[i + 1])
    THEN WordRun(s, SkipSeps(s, i + 2)) ELSE <<>>

\* re.search: the capture of the leftmost match, or <<>>
SearchFirst(text, P(_, _)) ==
    Once(text, LAMBDA s :
        Once({i \in 1..Len(s) : P(s, i) # <<>>}, LAMBDA hits :
            IF hits = {} THEN <<>>
            ELSE P(s, CHOOSE i \in hits : \A j \in hits : i <= j)))

\* The patterns are tried in source order.  The third pattern
\* (payment[_\s]?receipt[:\s]+...) matches only where the second already does.
extract_receipt_from_message(message) ==
    Once(message, LAMBDA m :
        Once(<<SearchFirst(m, Pattern1At), SearchFirst(m, Pattern2At), SearchFirst(m, Pattern4At)>>,
             LAMBDA found :
                IF found[1] # <<>> THEN found[1]
                ELSE IF found[2] # <<>> THEN found[2]
                ELSE IF found[3] # <<>> THEN found[3]
                ELSE Nil))

----------------------------------------------------------------------------
(* router.py: MessageRouter *)

\* the hard-coded ceiling of _handle_agent_message
DepthCeiling == 2
\* max_depth written into every outbound envelope
EnvelopeMaxDepth == 1

Ret(text) == [kind |-> "ret", text |-> text]
Raised(exc) == [kind |-> "raise", text |-> <<exc>>]

Ev(name, arg) == [ev |-> name, arg |-> arg]

Tag(agent_id) == <<"[">> \o agent_id \o <<"]", " ">>
ReplyTag(target, agent_id) == <<"[">> \o target \o <<" ", "->", " ">> \o agent_id \o <<"]", " ">>

MAX_DEPTH_TEXT == "Maximum depth reached"

\* what the configured improver does with the body: it returns it as it is,
\* returns it changed, returns the empty text, or raises
improver(mode, text) ==
    IF mode = "tag" THEN text \o <<" ", "please">>
    ELSE IF mode = "empty" THEN <<>>
    ELSE text

\* re.search(r'(\d+)\s*NP', text): the digits of the leftmost match, or <<>>
RECURSIVE DigitRun(_, _)
DigitRun(s, i) ==
    IF i <= Len(s) /\ s[i] \in DigitSet THEN <<s[i]>> \o DigitRun(s, i + 1) ELSE <<>>
RECURSIVE SkipSpaces(_, _)
SkipSpaces(s, i) == IF i <= Len(s) /\ IsSpace(s[i]) THEN SkipSpaces(s, i + 1) ELSE i
AmountAt(s, i) ==
    LET run == DigitRun(s, i)
        k == SkipSpaces(s, i + Len(run))
    IN IF run # <<>> /\ k <= Len(s) /\ s[k] = "NP" THEN run ELSE <<>>
\* an amount parser that falls back to 1 when the text names no amount
amount_match_or_one(text) ==
    IF SearchFirst(text, AmountAt) = <<>> THEN <<"1">> ELSE SearchFirst(text, AmountAt)
amount_match(text) == SearchFirst(text, AmountAt)

\* str() of an optional string inside an f-string
Render(s) == IF s = Nil THEN <<"None">> ELSE s

NoEnvelope == A2AMessage(Nil, Nil, <<>>, <<>>, 0, 1, QUERY, Nil)

\* the depth comparison off by one: the ceiling itself passes
DepthBlockedStrict(depth) == depth > DepthCeiling

\* the depth check at the head of _handle_agent_message (line 244)
DepthBlocked(depth) == depth >= DepthCeiling

Step(done, out, trace, envs) == [done |-> done, out |-> out, trace |-> trace, envs |-> envs]

\* _handle_agent_message up to the first client.send_message (lines 243-298)
AgentPre(rt, reg, message, conv, depth, b) ==
    LET parts == SplitOnce(message, " ")
        target_agent == Tail(parts[1])
        message_text == IF rt.improver THEN improver(b.imp, parts[2]) ELSE parts[2]
        t1 == IF rt.improver THEN <<Ev("improve", parts[2])>> ELSE <<>>
        target_url == lookup(reg, target_agent)
        t2 == t1 \o <<Ev("lookup", target_agent)>>
        receipt_id == extract_receipt_from_message(message_text)
        validation_result == validate_receipt(receipt_id, b.val, b.valAmt)
        payment_check == check_payment_requirement(reg, target_agent)
        t3 == IF ~rt.payment THEN t2
              ELSE IF receipt_id # Nil THEN t2 \o <<Ev("validate", receipt_id)>>
              ELSE t2 \o <<Ev("check", target_agent)>>
        a2a_msg == A2AMessage(rt.agent_id, target_agent, message_text, conv,
                              depth, EnvelopeMaxDepth, QUERY, Nil)
        url == IF target_url[Len(target_url)] = "/a2a" THEN target_url
               ELSE target_url \o <<"/a2a">>
    IN IF DepthBlocked(depth)
       THEN Step(TRUE, Ret(Tag(rt.agent_id) \o <<MAX_DEPTH_TEXT, " ", "(depth=">> \o DecStr(depth) \o <<")">>),
                 <<>>, <<>>)
       ELSE IF Len(parts) < 2
       THEN Step(TRUE, Ret(Tag(rt.agent_id) \o <<"Invalid format. Use '@agent_id message'">>), <<>>, <<>>)
       ELSE IF rt.improver /\ b.imp = "raise"
       THEN Step(TRUE, Raised("Exception"), t1, <<>>)
       ELSE IF ~Truthy(target_url)
       THEN Step(TRUE, Ret(Tag(rt.agent_id) \o <<"Agent", " ", "'">> \o target_agent
                           \o <<"'", " ", "not found in registry">>), t2, <<>>)
       ELSE IF rt.payment /\ receipt_id # Nil /\ validation_result.status # PAID
       THEN Step(TRUE, Ret(Tag(rt.agent_id) \o <<"Invalid receipt:", " ">>
                           \o validation_result.message), t3, <<>>)
       ELSE IF rt.payment /\ receipt_id = Nil /\ payment_check.status = REQUIRED
       THEN Step(TRUE, Ret(format_payment_required_response(payment_check, target_agent)), t3, <<>>)
       ELSE IF ~PostInitOk(a2a_msg)
       THEN Step(TRUE, Raised("ValueError"), t3, <<>>)
       ELSE Step(FALSE, Ret(<<>>), t3 \o <<Ev("send", target_agent)>>,
                 <<[url |-> url, env |-> a2a_msg]>>)

\* a transport failure that leaves the handler as an exception
SendFailedRaises(rt, target_agent, trace, envs) ==
    Step(TRUE, Raised("Exception"), trace, envs)

\* the except branch around both sends (lines 384-385)
SendFailed(rt, target_agent, trace, envs) ==
    Step(TRUE, Ret(Tag(rt.agent_id) \o <<"Error sending to", " ">> \o target_agent
                   \o <<":", " ", "boom">>), trace, envs)

\* a settlement that failed outright is taken for a payment
SettlePaidOrFailed(payment_result) == payment_result.status \in {PAID, PAYMENT_FAILED}

\* the test on the settlement result (line 340)
SettlePaid(payment_result) == payment_result.status = PAID

\* from the first response to the retry send (lines 318-367)
AgentAfterFirst(rt, pre, resp, b) ==
    LET env == pre.envs[1].env
        target_agent == env.to_agent
        digits == amount_match(resp.text)
        amount == DigitsVal(digits)
        payment_result == process_payment(rt.agent_id, target_agent, amount, b.settle)
        t1 == pre.trace \o <<Ev("settle", digits)>>
        message_with_receipt == env.message \o <<" ", "#", "receipt", ":">>
                                \o Render(payment_result.receipt_id)
        a2a_msg_retry == A2AMessage(rt.agent_id, target_agent, message_with_receipt,
                                    env.conversation_id, env.depth, EnvelopeMaxDepth, QUERY, Nil)
    IN IF resp.kind = "raise"
       THEN SendFailed(rt, target_agent, pre.trace, pre.envs)
       ELSE IF resp.kind = "none"
       THEN Step(TRUE, Ret(Tag(rt.agent_id) \o <<"Message sent to", " ">> \o target_agent
                           \o <<" ", "(no response)">>), pre.trace, pre.envs)
       ELSE IF ~(rt.payment /\ Contains(resp.text, PAYMENT_REQUIRED_TAG))
       THEN Step(TRUE, Ret(ReplyTag(target_agent, rt.agent_id) \o resp.text), pre.trace, pre.envs)
       ELSE IF digits = <<>>
       THEN Step(TRUE, Ret(ReplyTag(target_agent, rt.agent_id) \o resp.text), pre.trace, pre.envs)
       \* `import asyncio` at line 271 makes asyncio a local name of the whole
       \* handler, bound only when the payment gate found a receipt in the
       \* body; without one, asyncio.run at line 332 raises UnboundLocalError
       ELSE IF extract_receipt_from_message(env.message) = Nil
       THEN Step(TRUE, Ret(Tag(rt.agent_id) \o <<"Error sending to", " ">> \o target_agent
                           \o <<":", " ", "cannot access local variable 'asyncio' where it is not associated with a value">>),
                 pre.trace, pre.envs)
       ELSE IF ~SettlePaid(payment_result)
       THEN Step(TRUE, Ret(Tag(rt.agent_id) \o <<"Payment failed:", " ">> \o payment_result.message),
                 t1, pre.envs)
       ELSE Step(FALSE, Ret(<<>>), t1 \o <<Ev("send", target_agent)>>,
                 pre.envs \o <<[url |-> pre.envs[1].url, env |-> a2a_msg_retry]>>)

\* a retry that settles and sends once more when the peer asks for payment again
AgentAfterRetryAgain(rt, mid, resp) ==
    LET target_agent == mid.envs[1].env.to_agent
    IN IF resp.kind = "raise"
       THEN SendFailed(rt, target_agent, mid.trace, mid.envs)
       ELSE IF resp.kind = "none"
       THEN Step(TRUE, Ret(Tag(rt.agent_id) \o <<"Payment processed, message sent to", " ">> \o target_agent),
                 mid.trace, mid.envs)
       ELSE IF Contains(resp.text, PAYMENT_REQUIRED_TAG)
       THEN Step(TRUE, Ret(ReplyTag(target_agent, rt.agent_id) \o resp.text),
                 mid.trace \o <<Ev("settle", amount_match(resp.text)), Ev("send", target_agent)>>,
                 mid.envs \o <<mid.envs[2]>>)
       ELSE Step(TRUE, Ret(ReplyTag(target_agent, rt.agent_id) \o resp.text), mid.trace, mid.envs)

\* from the retry response to the return (lines 369-385)
AgentAfterRetry(rt, mid, resp) ==
    LET target_agent == mid.envs[1].env.to_agent
    IN IF resp.kind = "raise"
       THEN SendFailed(rt, target_agent, mid.trace, mid.envs)
       ELSE IF resp.kind = "none"
       THEN Step(TRUE, Ret(Tag(rt.agent_id) \o <<"Payment processed, message sent to", " ">> \o target_agent),
                 mid.trace, mid.envs)
       ELSE Step(TRUE, Ret(ReplyTag(target_agent, rt.agent_id) \o resp.text), mid.trace, mid.envs)

\* _handle_agent_message against a transport that answers r1, then r2
handle_agent_message(rt, reg, message, conv, depth, b) ==
    Once(AgentPre(rt, reg, message, conv, depth, b), LAMBDA pre :
        IF pre.done THEN pre
        ELSE Once(AgentAfterFirst(rt, pre, b.r1, b), LAMBDA mid :
                IF mid.done THEN mid ELSE AgentAfterRetry(rt, mid, b.r2)))

query_claude(rt, query, b) ==
    IF ~rt.claude
    THEN Step(TRUE, Ret(Tag(rt.agent_id) \o <<"Claude handler not configured">>), <<>>, <<>>)
    ELSE IF b.cl = "raise"
    THEN Step(TRUE, Ret(Tag(rt.agent_id) \o <<"Error querying Claude:", " ", "boom">>),
              <<Ev("llm", query)>>, <<>>)
    ELSE IF b.cl = "none"
    THEN Step(TRUE, Ret(Tag(rt.agent_id) \o Render(Nil)), <<Ev("llm", query)>>, <<>>)
    ELSE Step(TRUE, Ret(Tag(rt.agent_id) \o b.clText), <<Ev("llm", query)>>, <<>>)

\* commands that hand every unknown or incomplete command to the LLM handler
handle_command_lenient(rt, message, b) ==
    LET parts == SplitOnce(message, " ")
        command == Tail(parts[1])
    IN IF command = <<"help">>
       THEN Step(TRUE, Ret(Tag(rt.agent_id) \o <<"Available commands: ...">>), <<>>, <<>>)
       ELSE IF command = <<"query">> /\ Len(parts) = 2
       THEN query_claude(rt, parts[2], b)
       ELSE query_claude(rt, message, b)

\* a /query that hands the whole message, command word included, to the handler
handle_command_whole(rt, message, b) ==
    LET parts == SplitOnce(message, " ")
        command == Tail(parts[1])
    IN IF command = <<"help">>
       THEN Step(TRUE, Ret(Tag(rt.agent_id) \o <<"Available commands: ...">>), <<>>, <<>>)
       ELSE IF command = <<"query">>
       THEN query_claude(rt, message, b)
       ELSE Step(TRUE, Ret(Tag(rt.agent_id) \o <<"Unknown command", " ", "'">> \o command
                           \o <<"'.", " ", "Try /help">>), <<>>, <<>>)

handle_command(rt, message, b) ==
    LET parts == SplitOnce(message, " ")
        command == Tail(parts[1])
    IN IF command = <<"help">>
       THEN Step(TRUE, Ret(Tag(rt.agent_id) \o <<"Available commands: ...">>), <<>>, <<>>)
       ELSE IF command = <<"query">>
       THEN IF Len(parts) < 2
            THEN Step(TRUE, Ret(Tag(rt.agent_id) \o <<"Usage: /query <question>">>), <<>>, <<>>)
            ELSE query_claude(rt, parts[2], b)
       ELSE Step(TRUE, Ret(Tag(rt.agent_id) \o <<"Unknown command", " ", "'">> \o command
                           \o <<"'.", " ", "Try /help">>), <<>>, <<>>)

handle_default(rt, message, b) == query_claude(rt, message, b)

\* what the tool registry and tool server do for one '#' message is b.mcp:
\* "ok", "notfound", "noendpoint" or "raise"

handle_mcp_message(rt, message, b) ==
    LET parts == SplitOnce(message, " ")
        mcp_part == Tail(parts[1])
        names == SplitOnce(mcp_part, ":")
        server_name == names[2]
    IN IF ~rt.mcp
       THEN Step(TRUE, Ret(Tag(rt.agent_id) \o <<"MCP registry not configured">>), <<>>, <<>>)
       ELSE IF Len(parts) < 2
       THEN Step(TRUE, Ret(Tag(rt.agent_id) \o <<"Invalid MCP format. Use '#registry:server query'">>), <<>>, <<>>)
       ELSE IF ~Contains(mcp_part, ":")
       THEN Step(TRUE, Ret(Tag(rt.agent_id) \o <<"Invalid MCP format. Use '#registry:server query'">>), <<>>, <<>>)
       ELSE IF b.mcp = "notfound"
       THEN Step(TRUE, Ret(Tag(rt.agent_id) \o <<"MCP server", " ", "'">> \o server_name
                           \o <<"'", " ", "not found in registry">>),
                 <<Ev("mcp_lookup", server_name)>>, <<>>)
       ELSE IF b.mcp = "noendpoint"
       THEN Step(TRUE, Ret(Tag(rt.agent_id) \o <<"Invalid MCP server configuration (missing endpoint)">>),
                 <<Ev("mcp_lookup", server_name)>>, <<>>)
       ELSE IF b.mcp = "raise"
       THEN Step(TRUE, Ret(Tag(rt.agent_id) \o <<"Error querying MCP server", " ", "'">> \o server_name
                           \o <<"':", " ", "boom">>),
                 <<Ev("mcp_lookup", server_name)>>, <<>>)
       ELSE Step(TRUE, Ret(<<"[MCP:">> \o server_name \o <<"]", " ", "result">>),
                 <<Ev("mcp_lookup", server_name), Ev("mcp_query", parts[2])>>, <<>>)

\* a dispatch on the text as received, without the strip
route_unstripped(rt, reg, text, conv, depth, b) ==
    IF StartsWith(text, "@") THEN handle_agent_message(rt, reg, text, conv, depth, b)
    ELSE IF StartsWith(text, "#") THEN handle_mcp_message(rt, text, b)
    ELSE IF StartsWith(text, "/") THEN handle_command(rt, text, b)
    ELSE handle_default(rt, Strip(text), b)

\* MessageRouter.route
route(rt, reg, text, conv, depth, b) ==
    LET message == Strip(text)
    IN IF StartsWith(message, "@") THEN handle_agent_message(rt, reg, message, conv, depth, b)
       ELSE IF StartsWith(message, "#") THEN handle_mcp_message(rt, message, b)
       ELSE IF StartsWith(message, "/") THEN handle_command(rt, message, b)
       ELSE handle_default(rt, message, b)

----------------------------------------------------------------------------
(* The router under a stub transport: one route() call at a time *)

RouterConfig(imp, cl, pay, mcp) ==
    [agent_id |-> AGENT_A, improver |-> imp, claude |-> cl, payment |-> pay, mcp |-> mcp]

\* every combination of improver and payment gate, and each handler absent once
RouterConfigs ==
    { RouterConfig(i, TRUE, p, TRUE) : i \in BOOLEAN, p \in BOOLEAN }
    \cup { RouterConfig(FALSE, FALSE, TRUE, TRUE), RouterConfig(FALSE, TRUE, TRUE, FALSE) }

DirIds == {AGENT_B, AGENT_C}
\* agent_c is the agent nobody registers
RegisterIds == {AGENT_B}
EmptyDir == [id \in DirIds |-> NoEntry]

CONV_1 == <<"conv_001">>

AgentTexts ==
    { <<"@", "agent_b", " ", "hello">>,
      <<"@", "agent_c", " ", "hello">>,
      <<"@", "agent_b">>,
      <<" ", "@", "agent_b", " ", "hi", " ", "#", "receipt", ":", "r2", " ">> }

OtherTexts ==
    { <<"/", "help">>, <<"/", "query", " ", "hello">>, <<"/", "query">>, <<"/", "foo">>,
      <<"hello">>, <<>>, <<" ", "hello", " ", "hi", NL>>,
      <<"#", "nanda", ":", "pay", " ", "get">>, <<"#", "bad", " ", "get">>,
      <<"#", "nanda", ":", "pay">> }

RespRaise == [kind |-> "raise", text |-> <<>>]
RespNone == [kind |-> "none", text |-> <<>>]
RespText(t) == [kind |-> "text", text |-> t]

PEER_REPLY == <<"[", "agent_b", "]", " ", "pong">>
PayRequiredReply(c) ==
    format_payment_required_response(PaymentResult(REQUIRED, c, Nil, <<>>), AGENT_B)

IsPayRequired(r) == r.kind = "text" /\ Contains(r.text, PAYMENT_REQUIRED_TAG)

FirstResponses ==
    {RespRaise, RespNone, RespText(PEER_REPLY), RespText(<<PAYMENT_REQUIRED_TAG, ":", " ", "pay first">>)}
    \cup {RespText(PayRequiredReply(c)) : c \in 1..MaxCharge}

DefaultBehaviour ==
    [imp |-> "same", val |-> "found", valAmt |-> 0, r1 |-> RespNone, settle |-> "receipt",
     r2 |-> RespNone, cl |-> "text", clText |-> <<"pong">>, mcp |-> "ok"]

ImproverChoices(rt) == IF rt.improver THEN {"same", "tag", "empty", "raise"} ELSE {"same"}
ValidateChoices(text) ==
    IF \E i \in 1..Len(text) : IsReceiptWord(text[i])
    THEN {<<"notfound", 0>>, <<"raise", 0>>, <<"found", 0>>, <<"found", MaxCharge>>}
    ELSE {<<"found", 0>>}

\* The collaborators' behaviour during one call.  The settlement outcome and
\* the second transport answer are drawn only when the first answer carries
\* the payment-required tag; the receipt service only when the text names a
\* receipt; an absent improver has no behaviour.
AgentBehaviours(rt, text) ==
    { [DefaultBehaviour EXCEPT !.imp = i, !.val = v[1], !.valAmt = v[2], !.r1 = r]
        : i \in ImproverChoices(rt), v \in ValidateChoices(text),
          r \in {x \in FirstResponses : ~IsPayRequired(x)} }
    \cup
    { [DefaultBehaviour EXCEPT !.imp = i, !.val = v[1], !.valAmt = v[2], !.r1 = r,
                               !.settle = st, !.r2 = rr]
        : i \in ImproverChoices(rt), v \in ValidateChoices(text),
          r \in {x \in FirstResponses : IsPayRequired(x)},
          st \in SettleOutcomes, 
          rr \in {RespRaise, RespNone, RespText(PEER_REPLY), RespText(PayRequiredReply(1))} }

OtherBehaviours ==
    { [DefaultBehaviour EXCEPT !.cl = c, !.clText = ct, !.mcp = m]
        : c \in {"text", "none", "raise"}, ct \in {<<"pong">>},
          m \in {"ok", "notfound", "noendpoint", "raise"} }

Idle == [active |-> FALSE, text |-> <<>>, conv |-> <<>>, depth |-> 0, b |-> DefaultBehaviour]

RouterOff ==
    /\ router = RouterConfig(FALSE, FALSE, FALSE, FALSE)
    /\ registry = EmptyDir
    /\ rIn = Idle
    /\ rOut = Ret(<<>>)
    /\ rTrace = <<>>
    /\ rEnvs = <<>>

RouterInit ==
    /\ router \in RouterConfigs
    /\ registry = EmptyDir
    /\ rIn = Idle
    /\ rOut = Ret(<<>>)
    /\ rTrace = <<>>
    /\ rEnvs = <<>>

\* registry.register(agent_id, agent_url, service_charge)
Register(id, charge) ==
    /\ ~rIn.active
    /\ registry' = register(registry, id, UrlOf(id), charge)
    /\ UNCHANGED <<router, rIn, rOut, rTrace, rEnvs>>

\* registry.unregister(agent_id)
Unregister(id) ==
    /\ ~rIn.active
    /\ InDir(registry, id)
    /\ registry' = unregister(registry, id)
    /\ UNCHANGED <<router, rIn, rOut, rTrace, rEnvs>>

\* router.route(text, conversation_id, depth), with the collaborators behaving as b
DoRoute(text, depth, b) ==
    /\ \E r \in {route(router, registry, text, CONV_1, depth, b)} :
          /\ rOut' = r.out
          /\ rTrace' = r.trace
          /\ rEnvs' = r.envs
    /\ rIn' = [active |-> TRUE, text |-> text, conv |-> CONV_1, depth |-> depth, b |-> b]
    /\ UNCHANGED <<router, registry>>

Route ==
    /\ ~rIn.active
    /\ \/ \E text \in AgentTexts, depth \in 0..MaxRouteDepth :
             \E b \in AgentBehaviours(router, text) : DoRoute(text, depth, b)
       \/ \E text \in OtherTexts, depth \in 0..MaxRouteDepth, b \in OtherBehaviours :
             DoRoute(text, depth, b)

\* the caller takes the result; the router is ready for the next call
Return ==
    /\ rIn.active
    /\ rIn' = Idle
    /\ rOut' = Ret(<<>>)
    /\ rTrace' = <<>>
    /\ rEnvs' = <<>>
    /\ UNCHANGED <<router, registry>>

----------------------------------------------------------------------------
(* The envelope codec applied to bounded envelopes *)

BodyLineChoices ==
    { <<"hello">>, <<>>, <<"hi", " ", "there">>,
      <<FROM_MARK, "mallory">>, <<DEPTH_MARK, "7">>, <<TYPE_MARK, "bogus">>,
      <<START_MARK>>, <<END_MARK>> }

RECURSIVE BodiesOfLen(_)
BodiesOfLen(n) ==
    IF n = 1 THEN BodyLineChoices
    ELSE { b \o <<NL>> \o l : b \in BodiesOfLen(n - 1), l \in BodyLineChoices }

Envelopes ==
    { e \in { A2AMessage(f, AGENT_B, m, <<>>, d, md, ty, r)
                : f \in {AGENT_A, <<"a", " ", "b">>}, m \in UNION { BodiesOfLen(n) : n \in 1..MaxBodyLines }, d \in 0..MaxDepthVal,
                  md \in {0, 1, 12}, ty \in {QUERY, RESPONSE}, r \in {Nil, <<>>, RECEIPT_1} }
        : PostInitOk(e) }

CodecOff ==
    /\ cPhase = "off"
    /\ cEnv = NoEnvelope
    /\ cRaw = <<>>
    /\ cParsed = NoMessage

CodecInit ==
    /\ cPhase = "built"
    /\ cEnv \in Envelopes
    /\ cRaw = <<>>
    /\ cParsed = NoMessage

\* format_a2a_message(e)
CodecFormat ==
    /\ cPhase = "built"
    /\ cRaw' = format_a2a_message(cEnv)
    /\ cPhase' = "formatted"
    /\ UNCHANGED <<cEnv, cParsed>>

\* a text arrives from the wire
CodecReceive(raw) ==
    /\ cPhase = "built"
    /\ cEnv = NoEnvelope
    /\ cRaw' = raw
    /\ cPhase' = "received"
    /\ UNCHANGED <<cEnv, cParsed>>

\* parse_a2a_message(raw), of a formatted envelope or of a text received
CodecParse ==
    /\ cPhase \in {"formatted", "received"}
    /\ cParsed' = parse_a2a_message(cRaw)
    /\ cPhase' = IF cPhase = "formatted" THEN "parsed" ELSE "read"
    /\ UNCHANGED <<cEnv, cRaw>>

----------------------------------------------------------------------------
(* simple.py: SimpleNANDA servers wired to each other.  A send is a blocking *)
(* HTTP call, so the calls in progress form a stack of handle_message frames. *)

Agents == {AGENT_A, AGENT_B}
\* every agent is in the directory; agent_c is in nobody's
SysDirIds == Agents \cup {AGENT_C}

\* cap on the sends of one request, far above what the code produces
MaxSends == 4

\* SimpleNANDA.__init__: the router built for the agent
SimpleConfig(id, imp, cl) ==
    [agent_id |-> id, improver |-> imp, claude |-> cl, payment |-> TRUE, mcp |-> TRUE]

SysConfigs(id) == {SimpleConfig(id, FALSE, TRUE), SimpleConfig(id, TRUE, FALSE)}

InboundEnvelope(to, d, md) ==
    format_a2a_message(A2AMessage(<<"mallory">>, to, <<"hello">>, <<>>, d, md, QUERY, Nil))

\* what a user (any HTTP client) posts to an agent
UserTexts ==
    { <<"@", "agent_b", " ", "hello">>,
      <<"@", "agent_b", " ", "hi", " ", "#", "receipt", ":", "r2">>,
      <<"@", "agent_a", " ", "@", "agent_b", " ", "@", "agent_a", " ", "@", "agent_b", " ", "hi">>,
      <<"hello">>,
      <<EXT_MARK, NL, "junk">>,
      InboundEnvelope(AGENT_B, 0, 1),
      InboundEnvelope(AGENT_B, 1, 1),
      InboundEnvelope(AGENT_B, 2, 12) }

\* what an agent's LLM may say
LlmTexts ==
    { <<"pong">>, <<"@", "agent_a", " ", "hi">>, <<PAYMENT_REQUIRED_TAG, " ", "1", " ", "NP">> }

SysBehaviours(rt) ==
    { [DefaultBehaviour EXCEPT !.imp = i, !.cl = c[1], !.clText = c[2]]
        : i \in ImproverChoices(rt),
          c \in {<<"raise", <<>> >>} \cup {<<"text", t>> : t \in LlmTexts} }

NoStep == Step(FALSE, Ret(<<>>), <<>>, <<>>)
Frame(agent, text) == [agent |-> agent, text |-> text, pc |-> "recv", st |-> NoStep, res |-> Ret(<<>>)]
Finish(frame, res) == [frame EXCEPT !.pc = "done", !.res = res]

NoResponse == [kind |-> "idle", text |-> <<>>]

\* the agent a URL of the directory leads to
AgentAt(url) == CHOOSE a \in Agents : url = UrlOf(a) \o <<"/a2a">>

\* a receiver that hands the body of a parsed envelope to its router
RoutedTextBody(user_text) ==
    IF is_a2a_message(user_text) /\ parse_a2a_message(user_text).ok
    THEN parse_a2a_message(user_text).msg.message
    ELSE user_text

\* handle_message: the text handed to the router, None for an A2A envelope
\* (lines 377 and 416-421)
RoutedText(user_text) == IF is_a2a_message(user_text) THEN Nil ELSE user_text

\* an outcome that counts every envelope as answered
OutcomeAnswered(answered, a2a_msg, text) ==
    [answered |-> TRUE, depth |-> a2a_msg.depth, max_depth |-> a2a_msg.max_depth, text |-> text]

\* handle_message on an A2A envelope (lines 379-415): whether the envelope is
\* answered, and the response text
Outcome(answered, a2a_msg, text) ==
    [answered |-> answered, depth |-> a2a_msg.depth, max_depth |-> a2a_msg.max_depth, text |-> text]

HandleEnvelope(rt, user_text, b) ==
    Once(parse_a2a_message(user_text), LAMBDA parsed :
        LET a2a_msg == parsed.msg
        IN IF ~parsed.ok
           THEN Outcome(FALSE, a2a_msg, <<"Invalid A2A message format">>)
           ELSE IF a2a_msg.depth >= a2a_msg.max_depth
           THEN Outcome(FALSE, a2a_msg,
                        Tag(rt.agent_id) \o <<"Response logged", " ", "(max depth", " ">>
                        \o DecStr(a2a_msg.max_depth) \o <<" ", "reached)">>)
           ELSE IF rt.claude
           THEN Outcome(TRUE, a2a_msg,
                        IF b.cl = "raise" THEN Tag(rt.agent_id) \o <<"Error:", " ", "boom">>
                        ELSE Tag(rt.agent_id) \o b.clText)
           ELSE Outcome(TRUE, a2a_msg,
                        Tag(rt.agent_id) \o <<"Received from", " ">> \o a2a_msg.from_agent
                        \o <<":", " ">> \o a2a_msg.message))

SysInit ==
    /\ sAgents \in { f \in [Agents -> UNION {SysConfigs(a) : a \in Agents}] :
                       \A a \in Agents : f[a] \in SysConfigs(a) }
    /\ sDir \in { d \in [SysDirIds -> {NoEntry} \cup {Entry(UrlOf(a), c) : a \in Agents, c \in {0, MaxCharge}}] :
                    /\ \A a \in Agents : d[a].present /\ d[a].agent_url = UrlOf(a)
                    /\ \A a \in SysDirIds \ Agents : ~d[a].present }
    /\ sStack = <<>>
    /\ sSends = 0
    /\ sResp = NoResponse
    /\ sLog = <<>>

Top == sStack[Len(sStack)]
SetTop(frame) == [sStack EXCEPT ![Len(sStack)] = frame]

\* a user posts text to an agent
SysRequest(agent, text) ==
    /\ sStack = <<>>
    /\ sResp = NoResponse
    /\ sStack' = <<Frame(agent, text)>>
    /\ UNCHANGED <<sAgents, sDir, sSends, sResp, sLog>>

\* what handle_message does with the text it received, the collaborators
\* behaving as b: the envelope branch, or the router's first stretch
Handled(rt, dir, user_text, b) ==
    Once(RoutedText(user_text), LAMBDA routed :
        IF routed = Nil
        THEN [branch |-> "envelope", he |-> HandleEnvelope(rt, user_text, b), st |-> NoStep]
        ELSE IF ~StartsWith(Strip(routed), "@")
        THEN [branch |-> "router", he |-> Outcome(FALSE, NoEnvelope, <<>>),
              st |-> route(rt, dir, routed, <<"default">>, 0, b)]
        ELSE [branch |-> "router", he |-> Outcome(FALSE, NoEnvelope, <<>>),
              st |-> AgentPre(rt, dir, Strip(routed), <<"default">>, 0, b)])

\* AgentServer.handle_message, up to its return or its first outbound send
SysHandle ==
    /\ sStack # <<>>
    /\ Top.pc = "recv"
    /\ \E b \in SysBehaviours(sAgents[Top.agent]) :
         \E h \in {Handled(sAgents[Top.agent], sDir, Top.text, b)} :
            IF h.branch = "envelope"
            THEN /\ sStack' = SetTop(Finish(Top, Ret(h.he.text)))
                 /\ sLog' = IF h.he.answered
                            THEN Append(sLog, [agent |-> Top.agent, depth |-> h.he.depth,
                                               max_depth |-> h.he.max_depth])
                            ELSE sLog
                 /\ UNCHANGED sSends
            ELSE IF h.st.done
            THEN /\ sStack' = SetTop(Finish(Top, h.st.out))
                 /\ UNCHANGED <<sLog, sSends>>
            ELSE /\ sSends < MaxSends
                 /\ sStack' = Append(SetTop([Top EXCEPT !.pc = "wait1", !.st = h.st]),
                                     Frame(AgentAt(h.st.envs[1].url),
                                           format_a2a_message(h.st.envs[1].env)))
                 /\ sSends' = sSends + 1
                 /\ UNCHANGED sLog
    /\ UNCHANGED <<sAgents, sDir, sResp>>

\* the HTTP call fails before the peer handles it (timeout, connection error)
SysTransportFail ==
    /\ Len(sStack) >= 2
    /\ Top.pc = "recv"
    /\ sStack' = SetTop(Finish(Top, Raised("ConnectionError")))
    /\ UNCHANGED <<sAgents, sDir, sSends, sResp, sLog>>

\* the peer returned: the caller's _handle_agent_message resumes
SysReturn ==
    /\ Len(sStack) >= 2
    /\ Top.pc = "done"
    /\ \E outcome \in SettleOutcomes :
         LET caller == sStack[Len(sStack) - 1]
             rest == SubSeq(sStack, 1, Len(sStack) - 2)
             rt == sAgents[caller.agent]
             \* what client.send_message yields for the peer's result
             resp == IF Top.res.kind = "raise" THEN RespRaise ELSE RespText(Top.res.text)
             fin == AgentAfterRetry(rt, caller.st, resp)
         IN \E mid \in {IF caller.pc = "wait2" THEN NoStep
                         ELSE AgentAfterFirst(rt, caller.st, resp,
                                              [DefaultBehaviour EXCEPT !.settle = outcome])} :
            IF caller.pc = "wait2"
            THEN /\ sStack' = Append(rest, Finish(caller, fin.out))
                 /\ UNCHANGED sSends
            ELSE IF mid.done
            THEN /\ sStack' = Append(rest, Finish(caller, mid.out))
                 /\ UNCHANGED sSends
            ELSE /\ sSends < MaxSends
                 /\ sStack' = rest \o <<[caller EXCEPT !.pc = "wait2", !.st = mid],
                                        Frame(AgentAt(mid.envs[2].url),
                                              format_a2a_message(mid.envs[2].env))>>
                 /\ sSends' = sSends + 1
    /\ UNCHANGED <<sAgents, sDir, sResp, sLog>>

\* the outermost handle_message returns to the user
SysRespond ==
    /\ Len(sStack) = 1
    /\ Top.pc = "done"
    /\ sResp' = Top.res
    /\ sStack' = <<>>
    /\ UNCHANGED <<sAgents, sDir, sSends, sLog>>

\* the next request starts from a clean slate
SysReset ==
    /\ sStack = <<>>
    /\ sResp # NoResponse
    /\ sResp' = NoResponse
    /\ sSends' = 0
    /\ sLog' = <<>>
    /\ UNCHANGED <<sAgents, sDir, sStack>>


----------------------------------------------------------------------------
(* x402_compliant_middleware.py: the server side of the x402 payment flow. *)
(* A Message is its x402.payment.status, its receipts and its text.        *)
(* xCall is one call of the middleware: of the server side                 *)
(* (process_server_payment_and_service) or of the client side              *)
(* (process_complete_payment_flow), with what it returned and the calls it *)
(* made.                                                                   *)

\* create_payment_completed_message
create_payment_completed_message(original_message, transaction_id) ==
    [status |-> "payment-completed",
     receipts |-> <<[success |-> TRUE, transaction |-> transaction_id]>>,
     text |-> <<"Payment completed successfully. Processing your request:", " ">> \o original_message]

\* create_payment_failed_message
create_payment_failed_message(error_reason) ==
    [status |-> "payment-failed",
     receipts |-> <<[success |-> FALSE, transaction |-> Nil]>>,
     text |-> <<"Payment failed:", " ">> \o error_reason]

\* a test that looks at the receipts only: a failed message carries one too
is_payment_completed_message_by_receipts(message) == Len(message.receipts) > 0

\* is_payment_completed_message
is_payment_completed_message(message) ==
    message.status = "payment-completed" /\ Len(message.receipts) > 0

\* _settle_payment_via_mcp: the receipt query decides
settle_payment_via_mcp(transaction_id, b) ==
    LET validation_result == validate_receipt(transaction_id, b.val, b.valAmt)
    IN IF validation_result.status = PAID
       THEN [success |-> TRUE, error |-> <<>>]
       ELSE [success |-> FALSE,
             error |-> <<"Receipt validation failed:", " ">> \o validation_result.message]

\* handle_payment_submission: the message it returns and the calls it made.
\* A submission is its metadata as the handler reads it: custom fields
\* present, payload present, the payload's transaction_id (None if absent);
\* its x402.payment.status is carried along and read nowhere.
handle_payment_submission(sub, original_message, b) ==
    IF ~sub.custom_fields
    THEN [msg |-> create_payment_failed_message(<<"No metadata or custom_fields in payment submission">>),
          trace |-> <<>>]
    ELSE IF ~sub.payload
    THEN [msg |-> create_payment_failed_message(<<"No payment payload in submission">>), trace |-> <<>>]
    ELSE IF ~Truthy(sub.transaction_id)
    THEN [msg |-> create_payment_failed_message(<<"No transaction_id in payment payload">>), trace |-> <<>>]
    ELSE Once(settle_payment_via_mcp(sub.transaction_id, b), LAMBDA settlement_result :
            [msg |-> IF settlement_result.success
                     THEN create_payment_completed_message(original_message, sub.transaction_id)
                     ELSE create_payment_failed_message(settlement_result.error),
             trace |-> <<Ev("validate", sub.transaction_id)>>])

\* process_server_payment_and_service, the service handler behaving as b.cl
process_server_payment_and_service(sub, original_message, b) ==
    Once(handle_payment_submission(sub, original_message, b), LAMBDA h :
        IF ~is_payment_completed_message(h.msg) THEN h
        ELSE IF b.cl = "raise"
        THEN [msg |-> create_payment_failed_message(<<"boom">>),
              trace |-> h.trace \o <<Ev("service", original_message)>>]
        ELSE [msg |-> [h.msg EXCEPT !.text = b.clText],
              trace |-> h.trace \o <<Ev("service", original_message)>>])

\* what a call that raises X402PaymentError leaves to its caller
X402Raised(reason) == [status |-> "X402PaymentError", receipts |-> <<>>, text |-> reason]

\* process_client_payment (with _process_payment_via_mcp): the submitted
\* message or the error raised, and the calls made.  A payment-required
\* message is its metadata as read: custom fields present, the
\* x402.payment.required entry present, the amounts of its accepts list.
process_client_payment(req, original_message, from_agent, target_agent, b) ==
    IF ~req.custom_fields
    THEN [msg |-> X402Raised(<<"Failed to process payment:", " ", "No metadata in payment-required message">>),
          trace |-> <<>>]
    ELSE IF ~req.required
    THEN [msg |-> X402Raised(<<"Failed to process payment:", " ", "No payment requirements in message">>),
          trace |-> <<>>]
    ELSE IF req.accepts = <<>>
    THEN [msg |-> X402Raised(<<"Failed to process payment:", " ", "No payment options available">>),
          trace |-> <<>>]
    ELSE Once(process_payment(from_agent, target_agent, req.accepts[1], b.settle), LAMBDA payment_result :
            [msg |-> IF payment_result.status = PAID
                     THEN [status |-> "payment-submitted", receipts |-> <<>>,
                           text |-> <<"Payment submitted for:", " ">> \o original_message]
                     ELSE X402Raised(<<"Failed to process payment:", " ", "Payment processing failed:", " ">>
                                     \o (IF payment_result.status = INSUFFICIENT_BALANCE
                                         THEN <<"Insufficient balance">> ELSE <<"Payment failed">>)),
             trace |-> <<Ev("settle", DecStr(req.accepts[1]))>>])

\* process_complete_payment_flow, the target agent answering the post as
\* b.r1.  format_a2a_message has the one parameter msg (protocol.py:79); the
\* call of line 609 passes the keywords content, sender_id, receiver_id and
\* metadata, so Python raises TypeError before anything is posted.
process_complete_payment_flow(req, original_message, target_agent_url, b) ==
    Once(process_client_payment(req, original_message, AGENT_A, AGENT_B, b), LAMBDA p :
        IF p.msg.status # "payment-submitted"
        THEN [msg |-> X402Raised(<<"Payment flow failed:", " ">> \o p.msg.text), trace |-> p.trace]
        ELSE IF {"content", "sender_id", "receiver_id", "metadata"} # {"msg"}
        THEN [msg |-> X402Raised(<<"Payment flow failed:", " ",
                                   "format_a2a_message() got an unexpected keyword argument 'content'">>),
              trace |-> p.trace]
        ELSE IF b.r1.kind # "text"
        THEN [msg |-> X402Raised(<<"Payment flow failed:", " ", "boom">>),
              trace |-> p.trace \o <<Ev("post", target_agent_url)>>]
        ELSE [msg |-> [status |-> "response", receipts |-> <<>>, text |-> b.r1.text],
              trace |-> p.trace \o <<Ev("post", target_agent_url)>>])

X402Idle ==
    xCall = [active |-> FALSE, kind |-> "server",
             sub |-> [status |-> "payment-submitted", custom_fields |-> FALSE, payload |-> FALSE,
                      transaction_id |-> Nil],
             original |-> <<>>, b |-> DefaultBehaviour,
             msg |-> create_payment_failed_message(<<>>), trace |-> <<>>]

\* one call of process_server_payment_and_service
ServerPayment(sub, original_message, b) ==
    /\ ~xCall.active
    /\ \E r \in {process_server_payment_and_service(sub, original_message, b)} :
          xCall' = [active |-> TRUE, kind |-> "server", sub |-> sub, original |-> original_message,
                    b |-> b, msg |-> r.msg, trace |-> r.trace]

\* one call of process_complete_payment_flow by agent_a towards agent_b
ClientFlow(req, original_message, b) ==
    /\ ~xCall.active
    /\ \E r \in {process_complete_payment_flow(req, original_message, UrlOf(AGENT_B) \o <<"/a2a">>, b)} :
          xCall' = [active |-> TRUE, kind |-> "client", sub |-> req, original |-> original_message,
                    b |-> b, msg |-> r.msg, trace |-> r.trace]

\* the caller takes the message
ServerReturn ==
    /\ xCall.active
    /\ xCall' = [xCall EXCEPT !.active = FALSE]

----------------------------------------------------------------------------
(* registry.py: LocalRegistry instances over one registry file.  fFile is  *)
(* the file (missing, unreadable, or the JSON of a map), fInst[i] the      *)
(* instance process i holds, fAbs the map the calls made so far describe   *)
(* (the latest register of an id not followed by its unregister or a       *)
(* clear), fLast the last call with what it returned.                      *)

FileOff ==
    /\ fFile = [kind |-> "missing", agents |-> <<>>]
    /\ fInst = <<>>
    /\ fAbs = <<>>
    /\ fLast = [op |-> "none", id |-> Nil, ret |-> FALSE, present |-> FALSE]

\* LocalRegistry._load: the map in the file, {} when it is missing or unreadable
load(file) == IF file.kind = "json" THEN file.agents ELSE [id \in Agents |-> NoEntry]

\* LocalRegistry.__init__ in process i
Open(i) ==
    /\ ~fInst[i].open
    /\ fInst' = [fInst EXCEPT ![i] = [open |-> TRUE, agents |-> load(fFile)]]
    /\ fLast' = [op |-> "open", id |-> i, ret |-> TRUE, present |-> FALSE]
    /\ UNCHANGED <<fFile, fAbs>>

\* LocalRegistry.register through the instance of process i
FileRegister(i, id, url) ==
    /\ fInst[i].open
    /\ \E agents \in {register(fInst[i].agents, id, url, 0)} :
          /\ fInst' = [fInst EXCEPT ![i].agents = agents]
          /\ fFile' = [kind |-> "json", agents |-> agents]
    /\ fAbs' = register(fAbs, id, url, 0)
    /\ fLast' = [op |-> "register", id |-> id, ret |-> TRUE, present |-> fAbs[id].present]

\* an unregister that forgets to write the file
FileUnregisterUnsaved(i, id) ==
    /\ fInst[i].open
    /\ fInst' = [fInst EXCEPT ![i].agents = unregister(@, id)]
    /\ UNCHANGED fFile
    /\ fAbs' = unregister(fAbs, id)
    /\ fLast' = [op |-> "unregister", id |-> id, ret |-> InDir(fInst[i].agents, id),
                 present |-> fAbs[id].present]

\* LocalRegistry.unregister through the instance of process i
FileUnregister(i, id) ==
    /\ fInst[i].open
    /\ IF InDir(fInst[i].agents, id)
       THEN \E agents \in {unregister(fInst[i].agents, id)} :
               /\ fInst' = [fInst EXCEPT ![i].agents = agents]
               /\ fFile' = [kind |-> "json", agents |-> agents]
       ELSE UNCHANGED <<fInst, fFile>>
    /\ fAbs' = unregister(fAbs, id)
    /\ fLast' = [op |-> "unregister", id |-> id, ret |-> InDir(fInst[i].agents, id),
                 present |-> fAbs[id].present]

\* LocalRegistry.clear through the instance of process i
FileClear(i) ==
    /\ fInst[i].open
    /\ fInst' = [fInst EXCEPT ![i].agents = [id \in Agents |-> NoEntry]]
    /\ fFile' = [kind |-> "json", agents |-> [id \in Agents |-> NoEntry]]
    /\ fAbs' = [id \in Agents |-> NoEntry]
    /\ fLast' = [op |-> "clear", id |-> Nil, ret |-> TRUE, present |-> FALSE]

----------------------------------------------------------------------------
(* Two threads calling route() on one router.  A frame holds the locals of  *)
(* one call: where it stands, its arguments, the collaborators' behaviour   *)
(* towards it and what it has built so far; overlapped records that the     *)
(* call took a step while the other call was between its first send and its *)
(* return.                                                                  *)

ThreadIds == {"t1", "t2"}
Other(t) == CHOOSE u \in ThreadIds : u # t
ConvOf(t) == IF t = "t1" THEN CONV_1 ELSE <<"conv_002">>

NoFrame ==
    [pc |-> "idle", text |-> <<>>, conv |-> <<>>, b |-> DefaultBehaviour,
     st |-> Step(FALSE, Ret(<<>>), <<>>, <<>>), overlapped |-> FALSE]

ConcOff == tFrames = <<>>

InFlight(t) == tFrames[t].pc \in {"first", "retry"}

\* route() up to its first send, or to its return when it sends nothing
ThreadStart(t, text, b) ==
    /\ tFrames[t].pc = "idle"
    /\ \E st \in { IF StartsWith(Strip(text), "@")
                    THEN AgentPre(router, registry, Strip(text), ConvOf(t), 0, b)
                    ELSE route(router, registry, text, ConvOf(t), 0, b) } :
          tFrames' = [tFrames EXCEPT ![t] =
                         [pc |-> IF st.done THEN "done" ELSE "first", text |-> text, conv |-> ConvOf(t),
                          b |-> b, st |-> st, overlapped |-> InFlight(Other(t))]]
    /\ UNCHANGED routerVars

\* a router that keeps the envelope of the call in progress on itself: the
\* response is handled with what the call started last has built
ThreadFirstShared(t) ==
    /\ tFrames[t].pc = "first"
    /\ \E st \in { AgentAfterFirst(router,
                                    IF InFlight(Other(t)) THEN tFrames[Other(t)].st ELSE tFrames[t].st,
                                    tFrames[t].b.r1, tFrames[t].b) } :
          tFrames' = [tFrames EXCEPT ![t].st = st,
                                     ![t].pc = IF st.done THEN "done" ELSE "retry",
                                     ![t].overlapped = @ \/ InFlight(Other(t))]
    /\ UNCHANGED routerVars

\* the first response arrives: from it to the retry send or to the return
ThreadFirst(t) ==
    /\ tFrames[t].pc = "first"
    /\ \E st \in { AgentAfterFirst(router, tFrames[t].st, tFrames[t].b.r1, tFrames[t].b) } :
          tFrames' = [tFrames EXCEPT ![t].st = st,
                                     ![t].pc = IF st.done THEN "done" ELSE "retry",
                                     ![t].overlapped = @ \/ InFlight(Other(t))]
    /\ UNCHANGED routerVars

\* the response to the retry arrives: to the return
ThreadRetry(t) ==
    /\ tFrames[t].pc = "retry"
    /\ \E st \in { AgentAfterRetry(router, tFrames[t].st, tFrames[t].b.r2) } :
          tFrames' = [tFrames EXCEPT ![t].st = st, ![t].pc = "done",
                                     ![t].overlapped = @ \/ InFlight(Other(t))]
    /\ UNCHANGED routerVars

\* the caller takes the result; the thread is free for its next call
ThreadReturn(t) ==
    /\ tFrames[t].pc = "done"
    /\ tFrames' = [tFrames EXCEPT ![t] = NoFrame]
    /\ UNCHANGED routerVars

----------------------------------------------------------------------------
(* Specifications *)

SysOff ==
    /\ sAgents = <<>>
    /\ sDir = EmptyDir
    /\ sStack = <<>>
    /\ sSends = 0
    /\ sResp = NoResponse
    /\ sLog = <<>>

Init == RouterInit /\ CodecOff /\ SysOff /\ X402Idle /\ FileOff /\ ConcOff

Next ==
    \/ (\E id \in RegisterIds, c \in 0..MaxCharge : Register(id, c)) /\ UNCHANGED <<codecVars, sysVars, x402Vars, fileVars, concVars>>
    \/ (\E id \in RegisterIds : Unregister(id)) /\ UNCHANGED <<codecVars, sysVars, x402Vars, fileVars, concVars>>
    \/ Route /\ UNCHANGED <<codecVars, sysVars, x402Vars, fileVars, concVars>>
    \/ Return /\ UNCHANGED <<codecVars, sysVars, x402Vars, fileVars, concVars>>

Spec == Init /\ [][Next]_vars

CodecNext ==
    \/ CodecFormat /\ UNCHANGED <<routerVars, sysVars, x402Vars, fileVars, concVars>>
    \/ CodecParse /\ UNCHANGED <<routerVars, sysVars, x402Vars, fileVars, concVars>>

CodecSpecInit == CodecInit /\ RouterOff /\ SysOff /\ X402Idle /\ FileOff /\ ConcOff

CodecSpec == CodecSpecInit /\ [][CodecNext]_vars

\* texts as they may arrive from any sender: no sentinel, or the sentinel
\* and header lines that are absent, empty, negative or not a number, then
\* a body that is absent, empty, closed or left open
WireNext ==
    \/ (\E raw \in {<<>>, <<"hello">>, <<" ", NL>>,
                     <<"hello", NL, EXT_MARK, NL, FROM_MARK, "mallory">>} :
            CodecReceive(raw)) /\ UNCHANGED <<routerVars, sysVars, x402Vars, fileVars, concVars>>
    \/ (\E pre \in {<<>>, <<" ">>},
            f \in {<<>>, <<FROM_MARK, NL>>, <<FROM_MARK, "mallory", NL>>},
            t \in {<<>>, <<TO_MARK, "agent_b", NL>>},
            ty \in {<<>>, <<TYPE_MARK, "response", NL>>, <<TYPE_MARK, "bogus", NL>>},
            d \in {<<>>, <<DEPTH_MARK, "3", NL>>, <<DEPTH_MARK, "-", "1", NL>>, <<DEPTH_MARK, "x", NL>>},
            md \in {<<>>, <<MAXD_MARK, "0", NL>>, <<MAXD_MARK, "-", "1", NL>>, <<MAXD_MARK, "x", NL>>},
            rc \in {<<>>, <<RCPT_MARK>> \o RECEIPT_1 \o <<NL>>},
            body \in {<<>>, <<START_MARK, NL, END_MARK>>, <<START_MARK, NL, "hello">>,
                      <<START_MARK, NL, "hello", NL, END_MARK>>} :
            CodecReceive(pre \o <<EXT_MARK, NL>> \o f \o t \o ty \o d \o md \o rc \o body))
       /\ UNCHANGED <<routerVars, sysVars, x402Vars, fileVars, concVars>>
    \/ CodecParse /\ UNCHANGED <<routerVars, sysVars, x402Vars, fileVars, concVars>>

\* no envelope to format: a text arrives from the wire
WireSpecInit ==
    /\ cPhase = "built" /\ cEnv = NoEnvelope /\ cRaw = <<>> /\ cParsed = NoMessage
    /\ RouterOff /\ SysOff /\ X402Idle /\ FileOff /\ ConcOff

WireSpec == WireSpecInit /\ [][WireNext]_vars

SysNext ==
    \/ (\E a \in Agents, t \in UserTexts : SysRequest(a, t)) /\ UNCHANGED <<routerVars, codecVars, x402Vars, fileVars, concVars>>
    \/ SysHandle /\ UNCHANGED <<routerVars, codecVars, x402Vars, fileVars, concVars>>
    \/ SysTransportFail /\ UNCHANGED <<routerVars, codecVars, x402Vars, fileVars, concVars>>
    \/ SysReturn /\ UNCHANGED <<routerVars, codecVars, x402Vars, fileVars, concVars>>
    \/ SysRespond /\ UNCHANGED <<routerVars, codecVars, x402Vars, fileVars, concVars>>
    \/ SysReset /\ UNCHANGED <<routerVars, codecVars, x402Vars, fileVars, concVars>>

\* every call in progress runs to its return: handlers are sequential code and
\* every blocking send either returns or fails within its timeout
SysSpecInit == SysInit /\ RouterOff /\ CodecOff /\ X402Idle /\ FileOff /\ ConcOff

SysSpec ==
    /\ SysSpecInit /\ [][SysNext]_vars
    /\ WF_vars((SysHandle \/ SysReturn \/ SysRespond)
                 /\ UNCHANGED <<routerVars, codecVars, x402Vars, fileVars, concVars>>)

\* a submission is one of: no custom fields, no payload, no transaction_id,
\* an empty one, or one of two transaction ids, on a message of status
\* payment-submitted or of another status; the receipt query and the
\* service handler behave as b.val and b.cl.  A payment-required message has
\* no custom fields, no requirement entry, no option, or one or two options.
X402Next ==
    \/ (\E custom_fields \in BOOLEAN, payload \in BOOLEAN, transaction_id \in {Nil, <<>>, RECEIPT_1, <<"r2">>},
            status \in {"payment-submitted", "payment-required"},
            m \in {<<"hello">>, <<"hi", " ", "there">>},
            v \in {<<"notfound", 0>>, <<"raise", 0>>, <<"found", 0>>, <<"found", MaxCharge>>},
            c \in {<<"raise", <<>> >>, <<"text", <<"pong">> >>, <<"text", <<>> >>} :
            /\ payload => custom_fields
            /\ Truthy(transaction_id) => payload
            /\ ServerPayment([status |-> status, custom_fields |-> custom_fields, payload |-> payload,
                              transaction_id |-> transaction_id], m,
                             [DefaultBehaviour EXCEPT !.val = v[1], !.valAmt = v[2],
                                                      !.cl = c[1], !.clText = c[2]]))
       /\ UNCHANGED <<routerVars, codecVars, sysVars, fileVars, concVars>>
    \/ (\E custom_fields \in BOOLEAN, required \in BOOLEAN, accepts \in {<<>>, <<1>>, <<MaxCharge, 1>>},
            st \in SettleOutcomes, r \in {RespRaise, RespText(<<"pong">>)} :
            /\ required => custom_fields
            /\ accepts # <<>> => required
            /\ ClientFlow([custom_fields |-> custom_fields, required |-> required, accepts |-> accepts],
                          <<"hello">>, [DefaultBehaviour EXCEPT !.settle = st, !.r1 = r]))
       /\ UNCHANGED <<routerVars, codecVars, sysVars, fileVars, concVars>>
    \/ ServerReturn /\ UNCHANGED <<routerVars, codecVars, sysVars, fileVars, concVars>>

X402SpecInit == X402Idle /\ RouterOff /\ CodecOff /\ SysOff /\ FileOff /\ ConcOff

X402Spec == X402SpecInit /\ [][X402Next]_vars

\* the registry file is missing or unreadable when the first process starts;
\* a process opens its LocalRegistry once, then registers (an agent at its
\* own address or at a new one), unregisters and clears through it
FileNext ==
    \/ (\E i \in Agents : Open(i)) /\ UNCHANGED <<routerVars, codecVars, sysVars, x402Vars, concVars>>
    \/ (\E i \in Agents, id \in Agents : \E url \in {UrlOf(id), <<"http://", "moved">>} :
            FileRegister(i, id, url)) /\ UNCHANGED <<routerVars, codecVars, sysVars, x402Vars, concVars>>
    \/ (\E i \in Agents, id \in Agents : FileUnregister(i, id))
       /\ UNCHANGED <<routerVars, codecVars, sysVars, x402Vars, concVars>>
    \/ (\E i \in Agents : FileClear(i)) /\ UNCHANGED <<routerVars, codecVars, sysVars, x402Vars, concVars>>

\* each thread routes a text to agent_b, with or without a receipt, or a
\* plain text; the peer answers, fails or asks for payment, the receipt
\* service knows the receipt or not, the settlement succeeds or not
ConcNext ==
    \/ (\E t \in ThreadIds,
            text \in { <<"@", "agent_b", " ", "hello">>,
                       <<" ", "@", "agent_b", " ", "hi", " ", "#", "receipt", ":", "r2", " ">>,
                       <<"hello">> },
            v \in {"found", "notfound"}, st \in {"receipt", "insufficient"},
            r \in {RespRaise, RespText(PEER_REPLY), RespText(PayRequiredReply(1))},
            rr \in {RespNone, RespText(PEER_REPLY)} :
            ThreadStart(t, text, [DefaultBehaviour EXCEPT !.val = v, !.settle = st, !.r1 = r, !.r2 = rr]))
       /\ UNCHANGED <<codecVars, sysVars, x402Vars, fileVars>>
    \/ (\E t \in ThreadIds : ThreadFirst(t)) /\ UNCHANGED <<codecVars, sysVars, x402Vars, fileVars>>
    \/ (\E t \in ThreadIds : ThreadRetry(t)) /\ UNCHANGED <<codecVars, sysVars, x402Vars, fileVars>>
    \/ (\E t \in ThreadIds : ThreadReturn(t)) /\ UNCHANGED <<codecVars, sysVars, x402Vars, fileVars>>

\* a router with the payment gate, agent_b registered free or paid, no call
\* in progress
ConcInit ==
    /\ router = RouterConfig(FALSE, TRUE, TRUE, TRUE)
    /\ registry \in {register(EmptyDir, AGENT_B, UrlOf(AGENT_B), c) : c \in {0, 1}}
    /\ rIn = Idle /\ rOut = Ret(<<>>) /\ rTrace = <<>> /\ rEnvs = <<>>
    /\ tFrames = [t \in ThreadIds |-> NoFrame]
    /\ CodecOff /\ SysOff /\ X402Idle /\ FileOff

ConcSpec == ConcInit /\ [][ConcNext]_vars

\* no call made yet, no process started
FileInit ==
    /\ fFile \in {[kind |-> k, agents |-> [id \in Agents |-> NoEntry]] : k \in {"missing", "corrupt"}}
    /\ fInst = [i \in Agents |-> [open |-> FALSE, agents |-> [id \in Agents |-> NoEntry]]]
    /\ fAbs = [id \in Agents |-> NoEntry]
    /\ fLast = [op |-> "none", id |-> Nil, ret |-> FALSE, present |-> FALSE]
    /\ RouterOff /\ CodecOff /\ SysOff /\ X402Idle /\ ConcOff

FileSpec == FileInit /\ [][FileNext]_vars

----------------------------------------------------------------------------
(* Properties *)

EndsWith(s, t) == Len(s) >= Len(t) /\ SubSeq(s, Len(s) - Len(t) + 1, Len(s)) = t
CountEv(name) == Cardinality({i \in 1..Len(rTrace) : rTrace[i].ev = name})

\* the last call was route('@<target> <body>') and this is how the code reads it
IsAgentCall == rIn.active /\ StartsWith(Strip(rIn.text), "@")
CallParts == SplitOnce(Strip(rIn.text), " ")
CallTarget == Tail(CallParts[1])
CallHasBody == Len(CallParts) = 2
ImproverReturns == ~router.improver \/ rIn.b.imp # "raise"
CallBody == IF router.improver THEN improver(rIn.b.imp, CallParts[2]) ELSE CallParts[2]
TargetCharge == registry[CallTarget].service_charge

\* C1: for every depth at or above the ceiling, routing a text that starts
\* with '@' returns the 'Maximum depth reached' message and calls no
\* collaborator: no send, no directory lookup, no improver, no payment call.
C1_LoopTermination ==
    (IsAgentCall /\ rIn.depth >= DepthCeiling) =>
        /\ rOut.kind = "ret"
        /\ Contains(rOut.text, MAX_DEPTH_TEXT)
        /\ rTrace = <<>>
        /\ rEnvs = <<>>

C1_Witness ==
    /\ IsAgentCall
    /\ rIn.depth >= DepthCeiling
    /\ CallHasBody /\ InDir(registry, CallTarget)
    /\ router.improver /\ router.payment
    /\ Contains(rOut.text, MAX_DEPTH_TEXT)

\* C2: one user request causes at most two cross-agent sends (the send and
\* its payment retry), and every request in progress eventually gets its
\* response, whatever the LLM handlers and improvers produce.
C2_BoundedChain ==
    /\ [](sSends <= 2)
    /\ ((sStack # <<>>) ~> (sResp # NoResponse))

C2_Witness ==
    /\ sSends = 2
    /\ sStack = <<>>
    /\ sResp.kind = "ret"

\* C3: every envelope emitted while handling a message of depth d carries
\* depth d + 1.
C3_DepthIncrement ==
    rIn.active => \A i \in 1..Len(rEnvs) : rEnvs[i].env.depth = rIn.depth + 1

\* C4: a receiver never answers an inbound envelope whose depth is at or
\* above the receiver's own ceiling, whatever max_depth the sender wrote.
C4_ReceiverCeiling ==
    \A i \in 1..Len(sLog) : sLog[i].depth < DepthCeiling

\* the envelope's header values hold no line break and no body line is a
\* start or end marker line
RoundTripCase(e) ==
    /\ ~Contains(e.from_agent, NL)
    /\ ~Contains(e.to_agent, NL)
    /\ ~Contains(e.receipt_id, NL)
    /\ \A i \in 1..Len(SplitAll(e.message, NL)) :
          SplitAll(e.message, NL)[i] \notin {<<START_MARK>>, <<END_MARK>>}

HeadersKept(e, p) ==
    /\ p.from_agent = e.from_agent
    /\ p.to_agent = e.to_agent
    /\ p.depth = e.depth
    /\ p.max_depth = e.max_depth
    /\ p.message_type = e.message_type
    /\ p.receipt_id = e.receipt_id

\* C5: for every valid envelope in the round-trip case, parsing the formatted
\* envelope succeeds and gives back every field.
C5_RoundTrip ==
    (cPhase = "parsed" /\ RoundTripCase(cEnv)) =>
        /\ cParsed.ok
        /\ cParsed.msg.message = cEnv.message
        /\ HeadersKept(cEnv, cParsed.msg)

HasHeaderLine(body) ==
    \E i \in 1..Len(SplitAll(body, NL)) :
        \E m \in {FROM_MARK, TO_MARK, TYPE_MARK, DEPTH_MARK, MAXD_MARK, RCPT_MARK} : StartsWith(SplitAll(body, NL)[i], m)

\* C6: a body line that begins with a header marker stays in the message
\* text and changes no header field.
C6_BodyDelimited ==
    (cPhase = "parsed" /\ RoundTripCase(cEnv) /\ HasHeaderLine(cEnv.message)) =>
        /\ cParsed.ok
        /\ cParsed.msg.message = cEnv.message
        /\ HeadersKept(cEnv, cParsed.msg)

\* C7: route() returns a string for every input and every behaviour of the
\* collaborators; no exception escapes.
C7_NoException ==
    rIn.active => rOut.kind = "ret"

\* the call targets a directory entry with charge > 0, the payment gate is
\* configured, the depth is below the ceiling, the improver (if any) returned
\* and the body it returned names no receipt
PaidNoReceiptCase ==
    /\ IsAgentCall /\ CallHasBody
    /\ router.payment
    /\ rIn.depth < DepthCeiling
    /\ InDir(registry, CallTarget) /\ TargetCharge > 0
    /\ ImproverReturns
    /\ extract_receipt_from_message(CallBody) = Nil

C9_FreeNoSettle ==
    (IsAgentCall /\ CallHasBody /\ InDir(registry, CallTarget) /\ TargetCharge = 0) =>
        CountEv("settle") = 0

\* C10: for a paid target, a transport that answers payment-required and then
\* a normal reply, and a settlement that succeeds, route('@agent_b hello')
\* makes exactly two sends and returns the peer's second reply.
C10_PaymentRetry ==
    ( /\ rIn.active
      /\ rIn.text = <<"@", "agent_b", " ", "hello">>
      /\ rIn.depth = 0
      /\ router.payment /\ ~router.improver
      /\ InDir(registry, AGENT_B) /\ registry[AGENT_B].service_charge > 0
      /\ rIn.b.r1 = RespText(PayRequiredReply(registry[AGENT_B].service_charge))
      /\ rIn.b.settle = "receipt"
      /\ rIn.b.r2 = RespText(PEER_REPLY) ) =>
        /\ Len(rEnvs) = 2
        /\ rOut.kind = "ret"
        /\ EndsWith(rOut.text, PEER_REPLY)

\* the first send went out and the peer answered with the payment-required
\* tag and an amount, the payment gate being configured
FirstAnswerAsksPayment ==
    /\ IsAgentCall /\ router.payment
    /\ Len(rEnvs) >= 1
    /\ rIn.b.r1.kind = "text"
    /\ Contains(rIn.b.r1.text, PAYMENT_REQUIRED_TAG)
    /\ amount_match(rIn.b.r1.text) # <<>>

\* C11: one route() call makes at most two sends and at most one Settle call,
\* whatever the peer and the settlement service do; every send is one of the
\* two envelopes of the call.
C11_SingleRetry ==
    rIn.active =>
        /\ Len(rEnvs) <= 2
        /\ CountEv("send") = Len(rEnvs)
        /\ CountEv("settle") <= 1

C11_Witness ==
    /\ FirstAnswerAsksPayment
    /\ IsPayRequired(rIn.b.r2)
    /\ Len(rEnvs) = 2
    /\ CountEv("settle") = 1
    /\ rOut.kind = "ret" /\ Contains(rOut.text, PAYMENT_REQUIRED_TAG)

ServiceRuns == {i \in 1..Len(xCall.trace) : xCall.trace[i].ev = "service"}

\* the submission names a transaction and the receipt query finds it paid
SubmissionValid == Truthy(xCall.sub.transaction_id) /\ xCall.sub.payload /\ xCall.sub.custom_fields
                   /\ xCall.b.val = "found"

UnpaidEnvelopeHandled(frame) ==
    /\ frame.pc = "done"
    /\ is_a2a_message(frame.text)
    /\ parse_a2a_message(frame.text).ok
    /\ parse_a2a_message(frame.text).msg.receipt_id = Nil
    /\ sDir[frame.agent].service_charge > 0

\* C14: an agent registered with a service charge that receives an envelope
\* without a receipt replies with a payment-required response, and the reply
\* is not an answer of its LLM handler.
C14_PaidReceiverAsksPayment ==
    \A i \in 1..Len(sStack) :
        UnpaidEnvelopeHandled(sStack[i]) =>
            /\ sStack[i].res.kind = "ret"
            /\ Contains(sStack[i].res.text, PAYMENT_REQUIRED_TAG)
            /\ sStack[i].res.text \notin {Tag(sStack[i].agent) \o t : t \in LlmTexts}

\* the last send of the call raised: the first one, or the retry
LastSendRaised ==
    /\ IsAgentCall
    /\ \/ Len(rEnvs) = 1 /\ rIn.b.r1.kind = "raise"
       \/ Len(rEnvs) = 2 /\ rIn.b.r2.kind = "raise"

\* C15: when a send raises (the first one or the retry), route() returns the
\* error string that names the target, the failed send is the last call the
\* router makes: no further send and no settlement after it.
C15_TransportFailure ==
    LastSendRaised =>
        /\ rOut = Ret(Tag(router.agent_id) \o <<"Error sending to", " ">> \o CallTarget
                      \o <<":", " ", "boom">>)
        /\ CountEv("send") = Len(rEnvs)
        /\ rTrace[Len(rTrace)] = Ev("send", CallTarget)
        /\ CountEv("settle") = Len(rEnvs) - 1

C15_Witness ==
    /\ LastSendRaised
    /\ Len(rEnvs) = 2
    /\ CountEv("settle") = 1
    /\ rOut.kind = "ret"
    /\ Contains(rOut.text, "Error sending to")

\* C16: an improver that raises does not abort the send: routing to a
\* registered target that charges nothing goes on with the body as the
\* caller wrote it.
C16_ImproverFailureKeepsBody ==
    ( /\ IsAgentCall /\ CallHasBody
      /\ rIn.depth < DepthCeiling
      /\ router.improver /\ rIn.b.imp = "raise"
      /\ InDir(registry, CallTarget) /\ TargetCharge = 0 ) =>
        /\ rOut.kind = "ret"
        /\ Len(rEnvs) >= 1
        /\ rEnvs[1].env.message = CallParts[2]

\* C17: for a depth below the ceiling, routing '@id body' with id absent
\* from the directory returns the message that holds 'not found' and the
\* id, after one lookup, with no send and no payment call.
C17_UnknownAgent ==
    ( /\ IsAgentCall /\ CallHasBody
      /\ rIn.depth < DepthCeiling
      /\ ~InDir(registry, CallTarget) ) =>
        /\ rOut = Ret(Tag(router.agent_id) \o <<"Agent", " ", "'">> \o CallTarget
                      \o <<"'", " ", "not found in registry">>)
        /\ rEnvs = <<>>
        /\ CountEv("send") = 0
        /\ CountEv("check") + CountEv("validate") + CountEv("settle") = 0
        /\ CountEv("lookup") = 1

\* the one handler the first character of the stripped text selects, run on
\* the stripped text
SelectedHandler ==
    LET message == Strip(rIn.text)
        first == IF message = <<>> THEN "" ELSE message[1]
    IN CASE first = "@" -> handle_agent_message(router, registry, message, rIn.conv, rIn.depth, rIn.b)
         [] first = "#" -> handle_mcp_message(router, message, rIn.b)
         [] first = "/" -> handle_command(router, message, rIn.b)
         [] OTHER -> handle_default(router, message, rIn.b)

\* C18: route() strips the text and runs exactly one of the four handlers,
\* the one its first character selects ('@', '#', '/', anything else, the
\* empty text included): what route() returned, called and sent is what that
\* handler returns, calls and sends on the stripped text.
C18_Dispatch ==
    rIn.active =>
        \E h \in {SelectedHandler} :
            /\ rOut = h.out
            /\ rTrace = h.trace
            /\ rEnvs = h.envs

C18_Witness ==
    /\ IsAgentCall
    /\ rIn.text[1] = " "
    /\ rOut.kind = "ret"
    /\ Len(rEnvs) >= 1
    /\ CountEv("send") = Len(rEnvs)

\* the lines of the text received, and the values its header lines give
WireLines == SplitAll(cRaw, NL)
WireValues(mark) ==
    Once(WireLines, LAMBDA lines :
        {Tail(lines[i]) : i \in {j \in 1..Len(lines) : StartsWith(lines[j], mark)}})
WireNegative(mark) == \E v \in WireValues(mark) : ParseInt(v).ok /\ ParseInt(v).val < 0

\* the lines after the start marker line, up to the end marker line if any
WireBodyLines ==
    Once(WireLines, LAMBDA lines :
        LET starts == {i \in 1..Len(lines) : lines[i] = <<START_MARK>>}
            ends == {i \in 1..Len(lines) : lines[i] = <<END_MARK>>}
        IN {i \in 1..Len(lines) : (\E k \in starts : k < i) /\ (\A m \in ends : i < m)})

\* the text received starts with the sentinel and a required field is
\* missing or empty, the body is empty, a depth is negative or the type is
\* neither query nor response
WireRejectCase ==
    /\ cPhase = "read"
    /\ StartsWith(Strip(cRaw), EXT_MARK)
    /\ \/ WireValues(FROM_MARK) \subseteq {<<>>}
       \/ WireValues(TO_MARK) \subseteq {<<>>}
       \/ WireBodyLines = {}
       \/ WireNegative(DEPTH_MARK)
       \/ WireNegative(MAXD_MARK)
       \/ WireValues(TYPE_MARK) \ {QUERY, RESPONSE} # {}

\* C19: parse_a2a_message returns None for a text that starts with the
\* sentinel but lacks from or to, has an empty body, a negative depth or
\* max depth, or a type other than query/response; every result that is not
\* None has non-empty from, to and body, depth >= 0, max depth >= 0 and a
\* type in {query, response}.
C19_ParseTotal ==
    /\ WireRejectCase => ~cParsed.ok
    /\ (cPhase \in {"parsed", "read"} /\ cParsed.ok) =>
          /\ cParsed.msg.from_agent \notin {Nil, <<>>}
          /\ cParsed.msg.to_agent \notin {Nil, <<>>}
          /\ cParsed.msg.message # <<>>
          /\ cParsed.msg.depth >= 0
          /\ cParsed.msg.max_depth >= 0
          /\ cParsed.msg.message_type \in {QUERY, RESPONSE}

C19_Witness ==
    /\ WireRejectCase
    /\ WireNegative(DEPTH_MARK)
    /\ WireValues(FROM_MARK) = {<<"mallory">>}
    /\ WireValues(TO_MARK) = {AGENT_B}
    /\ WireValues(TYPE_MARK) = {RESPONSE}
    /\ ~WireNegative(MAXD_MARK)
    /\ WireBodyLines # {}
    /\ ~cParsed.ok

\* C20: parse_a2a_message returns None for the empty text and for every
\* text that does not start with the sentinel once trimmed; is_a2a_message
\* is true exactly for the texts that do; a text that parses is therefore an
\* envelope for is_a2a_message; and the formatted text of every valid
\* envelope both parses and is an envelope for is_a2a_message.
C20_NonEnvelopeRejected ==
    /\ cPhase \in {"parsed", "read"} =>
          /\ is_a2a_message(cRaw) <=> StartsWith(Strip(cRaw), EXT_MARK)
          /\ ~StartsWith(Strip(cRaw), EXT_MARK) => ~cParsed.ok
          /\ cParsed.ok => is_a2a_message(cRaw)
    /\ cPhase = "parsed" => (cParsed.ok /\ is_a2a_message(cRaw))

\* no line of the text received gives the header a number
WireNoNumber(mark) == \A v \in WireValues(mark) : ~ParseInt(v).ok

\* C21: a text received with from, to and a body parses unless a depth is
\* negative or the type is wrong: a missing or non-numeric depth gives depth
\* 0, a missing or non-numeric max depth gives max depth 1, a missing type
\* line gives query, a missing receipt line gives no receipt; a bad number
\* never fails the parse.
C21_Defaults ==
    (cPhase = "read" /\ StartsWith(Strip(cRaw), EXT_MARK) /\ ~WireRejectCase) =>
        /\ cParsed.ok
        /\ WireNoNumber(DEPTH_MARK) => cParsed.msg.depth = 0
        /\ WireNoNumber(MAXD_MARK) => cParsed.msg.max_depth = 1
        /\ WireValues(TYPE_MARK) = {} => cParsed.msg.message_type = QUERY
        /\ WireValues(RCPT_MARK) = {} => cParsed.msg.receipt_id = Nil

C21_Witness ==
    /\ cPhase = "read" /\ ~WireRejectCase
    /\ WireValues(DEPTH_MARK) = {<<"x">>}
    /\ WireValues(MAXD_MARK) = {}
    /\ WireValues(TYPE_MARK) = {}
    /\ WireValues(RCPT_MARK) = {}
    /\ cParsed.ok
    /\ cParsed.msg.depth = 0 /\ cParsed.msg.max_depth = 1

\* the call reaches the construction of the envelope with the empty body
\* the improver returned
EmptyBodyBuilt ==
    /\ IsAgentCall /\ CallHasBody
    /\ rIn.depth < DepthCeiling
    /\ router.improver /\ rIn.b.imp = "empty"
    /\ InDir(registry, CallTarget)
    /\ router.payment => TargetCharge = 0

\* C22: constructing an A2AMessage with an empty from, to or message, a
\* negative depth or max depth, or a type other than query/response fails:
\* every envelope the router formats and sends has none of these defects
\* (its conversation id may be anything), and when the body to send is
\* empty the construction raises ValueError and nothing is sent.
C22_ConstructionRejects ==
    /\ \A i \in 1..Len(rEnvs) :
          /\ rEnvs[i].env.from_agent \notin {Nil, <<>>}
          /\ rEnvs[i].env.to_agent \notin {Nil, <<>>}
          /\ rEnvs[i].env.message \notin {Nil, <<>>}
          /\ rEnvs[i].env.depth >= 0
          /\ rEnvs[i].env.max_depth >= 0
          /\ rEnvs[i].env.message_type \in {QUERY, RESPONSE}
    /\ EmptyBodyBuilt => (rOut = Raised("ValueError") /\ rEnvs = <<>>)

C22_Witness ==
    /\ EmptyBodyBuilt
    /\ rOut = Raised("ValueError")
    /\ rEnvs = <<>>
    /\ CountEv("send") = 0

\* C23: routing a text that starts with '@' at depth 1 or more is blocked
\* with the 'Maximum depth reached' message that names the depth, and
\* nothing is sent: only depth 0 is sent.
C23_DepthOneBlocked ==
    (IsAgentCall /\ rIn.depth >= 1) =>
        /\ rOut = Ret(Tag(router.agent_id) \o <<MAX_DEPTH_TEXT, " ", "(depth=">>
                      \o DecStr(rIn.depth) \o <<")">>)
        /\ rEnvs = <<>>
        /\ CountEv("send") = 0

\* the text the last call hands to the LLM handler: the plain prompt or the
\* text after '/query '; None when the call is not such a call
LlmQuery ==
    LET message == Strip(rIn.text)
        parts == SplitOnce(message, " ")
    IN IF ~rIn.active \/ StartsWith(message, "@") \/ StartsWith(message, "#") THEN Nil
       ELSE IF ~StartsWith(message, "/") THEN message
       ELSE IF Tail(parts[1]) = <<"query">> /\ Len(parts) = 2 THEN parts[2]
       ELSE Nil

\* C24: for a plain prompt or '/query <text>', route() returns the 'handler
\* not configured' message when no LLM handler is configured, an error
\* string when the handler raises, and a fallback string, never the
\* rendering of the null value, when the handler returns None.
C24_LlmFallback ==
    LlmQuery # Nil =>
        /\ rOut.kind = "ret"
        /\ ~router.claude => rOut.text = Tag(router.agent_id) \o <<"Claude handler not configured">>
        /\ (router.claude /\ rIn.b.cl = "raise") => Contains(rOut.text, "Error querying Claude:")
        /\ (router.claude /\ rIn.b.cl = "none") => ~Contains(rOut.text, "None")

\* the last call was a '/' command, and the command word it names
IsCommandCall == rIn.active /\ StartsWith(Strip(rIn.text), "/")
CommandWord == Tail(SplitOnce(Strip(rIn.text), " ")[1])

\* C25: '/query <text>' calls the LLM handler exactly once, with exactly
\* <text>, and makes no other call: no directory lookup, no payment call, no
\* send; '/help' returns the usage text and calls no collaborator.
C25_QueryDelegates ==
    /\ (IsCommandCall /\ LlmQuery # Nil /\ router.claude) =>
          /\ rTrace = <<Ev("llm", LlmQuery)>>
          /\ rEnvs = <<>>
          /\ rOut.kind = "ret"
    /\ (IsCommandCall /\ CommandWord = <<"help">>) =>
          /\ rOut = Ret(Tag(router.agent_id) \o <<"Available commands: ...">>)
          /\ rTrace = <<>>
          /\ rEnvs = <<>>

C25_Witness ==
    /\ IsCommandCall /\ router.claude
    /\ LlmQuery = <<"hello">>
    /\ rIn.b.cl = "text"
    /\ rTrace = <<Ev("llm", <<"hello">>)>>
    /\ rOut = Ret(Tag(router.agent_id) \o rIn.b.clText)

\* C26: below the depth ceiling '@id' without a body returns the 'Invalid
\* format' message, '/query' without a text returns the usage message and
\* an unknown '/token' returns the 'Unknown command' message that names the
\* token; none of the three makes a call: no directory lookup, no LLM call,
\* no send.
C26_MalformedSyntax ==
    /\ (IsAgentCall /\ ~CallHasBody /\ rIn.depth < DepthCeiling) =>
          /\ rOut = Ret(Tag(router.agent_id) \o <<"Invalid format. Use '@agent_id message'">>)
          /\ rTrace = <<>> /\ rEnvs = <<>>
    /\ (IsCommandCall /\ CommandWord = <<"query">> /\ LlmQuery = Nil) =>
          /\ rOut = Ret(Tag(router.agent_id) \o <<"Usage: /query <question>">>)
          /\ rTrace = <<>> /\ rEnvs = <<>>
    /\ (IsCommandCall /\ CommandWord \notin {<<"query">>, <<"help">>}) =>
          /\ rOut = Ret(Tag(router.agent_id) \o <<"Unknown command", " ", "'">> \o CommandWord
                        \o <<"'.", " ", "Try /help">>)
          /\ rTrace = <<>> /\ rEnvs = <<>>

C26_Witness ==
    /\ IsCommandCall /\ CommandWord = <<"foo">>
    /\ router.claude
    /\ rOut.kind = "ret" /\ Contains(rOut.text, "Unknown command")
    /\ rTrace = <<>>

\* the last call was a '#' message; it is malformed when its first word has
\* no ':' or no query follows it
IsMcpCall == rIn.active /\ StartsWith(Strip(rIn.text), "#")
McpMalformed ==
    \/ Len(SplitOnce(Strip(rIn.text), " ")) < 2
    \/ ~Contains(SplitOnce(Strip(rIn.text), " ")[1], ":")

\* the calls of the last route() are all calls to the tool collaborators
OnlyMcpCalls ==
    /\ rEnvs = <<>>
    /\ \A i \in 1..Len(rTrace) : rTrace[i].ev \in {"mcp_lookup", "mcp_query"}

\* C27: a '#' message without ':' or without a query returns the 'Invalid
\* MCP format' message whether or not a tool registry is configured; a
\* lookup miss or a failure of the tool collaborator is returned as text,
\* never raised; a '#' message never calls the LLM handler, the agent
\* directory, the payment gate or the agent transport.
C27_ToolQueries ==
    IsMcpCall =>
        /\ rOut.kind = "ret"
        /\ OnlyMcpCalls
        /\ McpMalformed =>
              rOut.text = Tag(router.agent_id) \o <<"Invalid MCP format. Use '#registry:server query'">>

\* what check_payment_requirement must answer for a target in a directory
RequirementMatches(reg, id) ==
    LET r == check_payment_requirement(reg, id)
    IN IF InDir(reg, id) /\ reg[id].service_charge > 0
       THEN r.status = REQUIRED /\ r.amount = reg[id].service_charge
       ELSE r.status = NOT_REQUIRED /\ r.amount = 0

SingleInstance(i) == fInst[i].open /\ \A j \in Agents \ {i} : ~fInst[j].open

\* C29: with one LocalRegistry instance on the file, after any sequence of
\* register, unregister and clear, lookup(id) is the address of the latest
\* register(id) not followed by unregister(id) or clear, and None otherwise;
\* unregister(id) returns True iff id was present; and a fresh instance
\* opened on the file holds the same map, so it answers every lookup and
\* list as the first one does.
C29_PersistedMap ==
    \A i \in Agents :
        SingleInstance(i) =>
            /\ \A id \in Agents :
                  lookup(fInst[i].agents, id) = IF fAbs[id].present THEN fAbs[id].agent_url ELSE Nil
            /\ fLast.op = "unregister" => fLast.ret = fLast.present
            /\ load(fFile) = fInst[i].agents

C29_Witness ==
    /\ SingleInstance(AGENT_A)
    /\ fLast = [op |-> "unregister", id |-> AGENT_B, ret |-> TRUE, present |-> TRUE]
    /\ fFile.kind = "json"
    /\ lookup(load(fFile), AGENT_B) = Nil
    /\ lookup(load(fFile), AGENT_A) = <<"http://", "moved">>

\* C30: when both processes have opened the registry file and each agent is
\* registered at its own address, each of them resolves the other: a
\* registration written through one instance is seen by the lookups of the
\* other.
C30_SharedFileDiscovery ==
    ( /\ \A i \in Agents : fInst[i].open
      /\ \A i \in Agents : fAbs[i] = Entry(UrlOf(i), 0) ) =>
        \A i \in Agents, j \in Agents : lookup(fInst[i].agents, j) = UrlOf(j)

\* the position of the first event of that name in the trace of the call, 0 if none
FirstEv(name) ==
    IF \E i \in 1..Len(rTrace) : rTrace[i].ev = name
    THEN CHOOSE i \in 1..Len(rTrace) :
            rTrace[i].ev = name /\ \A j \in 1..(i - 1) : rTrace[j].ev # name
    ELSE 0

\* C31: every envelope route('@target body', conv, depth) hands to the
\* transport (the first send and the payment retry) is from the router's own
\* agent id, to the target named in the text, at the depth of the call, of
\* type query, and goes to the address the directory gave for the target in
\* a lookup made earlier in the same call.
C31_OutboundEnvelope ==
    rIn.active =>
        \A i \in 1..Len(rEnvs) :
            /\ rEnvs[i].env.from_agent = router.agent_id
            /\ rEnvs[i].env.to_agent = CallTarget
            /\ rEnvs[i].env.depth = rIn.depth
            /\ rEnvs[i].env.message_type = QUERY
            /\ rEnvs[i].env.conversation_id = rIn.conv
            /\ InDir(registry, CallTarget)
            /\ rEnvs[i].url = lookup(registry, CallTarget) \o <<"/a2a">>
            /\ FirstEv("lookup") > 0 /\ FirstEv("lookup") < FirstEv("send")
            /\ rTrace[FirstEv("lookup")].arg = CallTarget

C31_Witness ==
    /\ rIn.active /\ rIn.depth = 1
    /\ Len(rEnvs) = 2
    /\ rEnvs[2].env.from_agent = AGENT_A /\ rEnvs[2].env.to_agent = AGENT_B
    /\ rEnvs[2].env.depth = 1

\* the frames of handle_message calls that received a text starting with the
\* envelope sentinel
EnvelopeFrames == {i \in 1..Len(sStack) : is_a2a_message(sStack[i].text)}

\* C32: the server handles an inbound envelope by the envelope's own
\* counters.  At depth >= max_depth it returns the 'Response logged' text
\* and the LLM handler is not invoked; at depth < max_depth it returns one
\* reply (the handler's text, its error, or the echo when no handler is
\* set); a text that starts with the sentinel but does not parse returns
\* 'Invalid A2A message format'; and such a text never reaches the router:
\* its call makes no send and ends in one step.  (A frame that ends with
\* ConnectionError is a post that never arrived.)
C32_ServerByCounters ==
    /\ \A i \in EnvelopeFrames :
          LET frame == sStack[i]
              parsed == parse_a2a_message(frame.text)
              rt == sAgents[frame.agent]
          IN /\ frame.pc \in {"recv", "done"}
             /\ frame.st = NoStep
             /\ (frame.pc = "done" /\ frame.res # Raised("ConnectionError")) =>
                   /\ frame.res.kind = "ret"
                   /\ ~parsed.ok => frame.res.text = <<"Invalid A2A message format">>
                   /\ (parsed.ok /\ parsed.msg.depth >= parsed.msg.max_depth) =>
                         frame.res.text = Tag(frame.agent) \o <<"Response logged", " ", "(max depth", " ">>
                                          \o DecStr(parsed.msg.max_depth) \o <<" ", "reached)">>
                   /\ (parsed.ok /\ parsed.msg.depth < parsed.msg.max_depth) =>
                         /\ StartsWith(frame.res.text, "[")
                         /\ ~Contains(frame.res.text, "Response logged")
                         /\ sLog # <<>>
                         /\ sLog[Len(sLog)] = [agent |-> frame.agent, depth |-> parsed.msg.depth,
                                               max_depth |-> parsed.msg.max_depth]
    /\ \A k \in 1..Len(sLog) : sLog[k].depth < sLog[k].max_depth

C32_Witness ==
    /\ Len(sStack) = 1
    /\ sStack[1].pc = "done"
    /\ sStack[1].text = InboundEnvelope(AGENT_B, 2, 12)
    /\ sStack[1].res.kind = "ret"
    /\ sLog # <<>>
    /\ sLog[Len(sLog)].depth = 2

\* the receipt the payment gate finds in the body the router is about to send
CallReceipt == extract_receipt_from_message(CallBody)

\* what the statement of C33 asks of a call whose body carries a receipt
ReceiptRoundTrip ==
    /\ CountEv("validate") <= 1
    /\ CountEv("send") > 0 =>
          /\ FirstEv("validate") > 0 /\ FirstEv("validate") < FirstEv("send")
          /\ rTrace[FirstEv("validate")].arg = CallReceipt
          /\ rIn.b.val = "found"
    /\ (ImproverReturns /\ rIn.depth < DepthCeiling /\ InDir(registry, CallTarget)
          /\ rIn.b.val # "found") =>
          /\ rOut.kind = "ret"
          /\ StartsWith(rOut.text, "[") /\ Contains(rOut.text, "Invalid receipt:")
          /\ rEnvs = <<>> /\ CountEv("send") = 0

C36_NegotiationOrder ==
    (xCall.active /\ xCall.kind = "server") =>
        LET h == handle_payment_submission(xCall.sub, xCall.original, xCall.b).msg
            good == /\ xCall.sub.status = "payment-submitted"
                    /\ Truthy(xCall.sub.transaction_id)
                    /\ xCall.b.val = "found"
        IN /\ h.status \in {"payment-completed", "payment-failed"}
           /\ h.status = "payment-completed" =>
                 /\ good
                 /\ h.receipts # <<>>
                 /\ h.receipts[1].transaction = xCall.sub.transaction_id
           /\ ~good => h.status = "payment-failed"

\* C37: in process_complete_payment_flow, whenever the client-side
\* settlement succeeds, the payment-submitted message is posted to the
\* target agent exactly once and the target's response is returned.
C37_ClientFlowSubmits ==
    ( /\ xCall.active /\ xCall.kind = "client"
      /\ \E i \in 1..Len(xCall.trace) : xCall.trace[i].ev = "settle"
      /\ xCall.b.settle \in {"receipt", "receipt_noid"} ) =>
        /\ Cardinality({i \in 1..Len(xCall.trace) : xCall.trace[i].ev = "post"}) = 1
        /\ xCall.b.r1.kind = "text" => xCall.msg.text = xCall.b.r1.text

\* C34: when the first response carries the payment-required tag with an
\* amount and the settlement service answers with a receipt, exactly one
\* retry envelope is sent, to the same address and with the same from_agent,
\* to_agent, depth, max_depth and message_type as the first envelope; its
\* body is the body of the first envelope followed by the receipt token of
\* the Settle result, and Settle was called once, with the amount named in
\* the response.
C34_RetrySameCall ==
    (FirstAnswerAsksPayment /\ rIn.b.settle = "receipt") =>
        /\ Len(rEnvs) = 2
        /\ CountEv("settle") = 1
        /\ rTrace[FirstEv("settle")].arg = amount_match(rIn.b.r1.text)
        /\ rEnvs[2].url = rEnvs[1].url
        /\ rEnvs[2].env.from_agent = rEnvs[1].env.from_agent
        /\ rEnvs[2].env.to_agent = rEnvs[1].env.to_agent
        /\ rEnvs[2].env.depth = rEnvs[1].env.depth
        /\ rEnvs[2].env.max_depth = rEnvs[1].env.max_depth
        /\ rEnvs[2].env.message_type = rEnvs[1].env.message_type
        /\ rEnvs[1].env.message = CallBody
        /\ rEnvs[2].env.message = CallBody \o <<" ", "#", "receipt", ":">> \o RECEIPT_1

\* the first response carries the payment-required tag and names an amount
FirstAnswerNamesAmount ==
    /\ rIn.b.r1.kind = "text"
    /\ Contains(rIn.b.r1.text, PAYMENT_REQUIRED_TAG)
    /\ \E i \in 1..Len(rIn.b.r1.text) : AmountAt(rIn.b.r1.text, i) # <<>>

\* C35: within route(), Settle is called only on a router with the payment
\* gate, only after the first send, and only when the response to that send
\* carried the payment-required tag with an amount; a call that ended at the
\* gate (requirement check, receipt validation, payment-required answer)
\* made no Settle call.
C35_SettleOnlyInHandshake ==
    rIn.active =>
        /\ rEnvs = <<>> => CountEv("settle") = 0
        /\ CountEv("settle") > 0 =>
              /\ router.payment
              /\ FirstEv("send") > 0 /\ FirstEv("send") < FirstEv("settle")
              /\ FirstAnswerNamesAmount

C35_Witness ==
    /\ rIn.active /\ router.payment
    /\ CountEv("validate") = 1
    /\ CountEv("settle") = 1
    /\ FirstEv("validate") < FirstEv("send") /\ FirstEv("send") < FirstEv("settle")
    /\ FirstAnswerNamesAmount

\* C40: on a router with the payment gate, an envelope is sent to a target
\* whose directory charge is c > 0 only if, earlier in the same call, a
\* receipt was validated as PAID for an amount of at least c.
C40_PaidTargetServed ==
    ( /\ IsAgentCall /\ CallHasBody /\ router.payment
      /\ InDir(registry, CallTarget) /\ TargetCharge > 0
      /\ Len(rEnvs) >= 1 ) =>
        /\ FirstEv("validate") > 0 /\ FirstEv("validate") < FirstEv("send")
        /\ validate_receipt(CallReceipt, rIn.b.val, rIn.b.valAmt).status = PAID
        /\ validate_receipt(CallReceipt, rIn.b.val, rIn.b.valAmt).amount >= TargetCharge

\* C39: when both LocalRegistry instances are open on the file and the two
\* agent ids have been registered through them (and not removed since), the
\* file, and so a fresh instance loaded from it, holds every registered
\* agent.
C39_NoLostRegistration ==
    ( /\ \A i \in Agents : fInst[i].open
      /\ \A id \in Agents : fAbs[id].present ) =>
        \A id \in Agents : InDir(load(fFile), id)

====
